---- MODULE Spec2Model ----
(***************************************************************************)
(* A model of the nori acquire-verify-extract-install-expose pipeline.      *)
(*                                                                         *)
(* Go strings are sequences of one-character strings, so that the string   *)
(* tests of the code (strings.Contains, strings.HasPrefix, len) are        *)
(* computed on the text itself.  A Go error is the sequence of the         *)
(* messages of its %w chain, outermost first: Head is err.Error(), Tail is  *)
(* errors.Unwrap(err), and the empty sequence is nil.                       *)
(***************************************************************************)
EXTENDS Integers, Sequences, FiniteSets, TLC

VARIABLES
    \* ---- one call of VerifyChecksum
    vpc,        \* "off" | "call" | "ret"
    vdata,      \* the content bytes
    vexpected,  \* the expected checksum string
    verr        \* the returned error

VARIABLES
    \* ---- one call of Fetcher.Fetch
    fpc,        \* "off" | "attempt" | "wait" | "done"
    furl,       \* the url argument
    fexpected,  \* the expectedChecksum argument
    ctxErr,     \* ctx.Err(): Nil until the context is done
    attempt,    \* the loop variable of FetchWithProgress
    lastErr,    \* its lastErr
    fdata,      \* the returned bytes: <<>> for nil, <<b>> for the slice b
    ferr,       \* the returned error
    history,    \* the results of the calls of fetchOnce so far, in order
    requests,   \* the requests the server has received
    waits,      \* the backoff waits that ran to their end, in time units
    elapsed,    \* the time units the current wait has lasted
    woke,       \* what woke the select: "none" | "timer" | "done"
    cancelledInWait  \* the attempts made when the context became done
                     \* during a backoff wait, 0 when that did not happen

VARIABLES
    \* ---- the file system, and one call of Extractor.Extract
    fs,         \* the file system: path -> node
    epc,        \* "off" | "call" | "entries" | "done"
    earchive,   \* the archive file that the data argument holds
    eassetType, \* the assetType argument
    echecksum,  \* the checksum argument
    etmp,       \* tmpDir, <<>> before os.MkdirTemp
    eidx,       \* the entries the reader has handed out, plus 1
    eret,       \* the returned path, <<>> for ""
    eerr        \* the returned error

VARIABLES
    \* ---- runs of the install command, from the extracted tree on
    ipc,         \* "off" | "idle" | "install" | "shims" | "return"
    iruns,       \* the runs that are over
    crossDevice, \* temporary files and home lie on different volumes
    hasSymlinks, \* the file system of home has symbolic links
    iversion,    \* the version asked for
    itree,       \* the tree that Extract made
    iroom,       \* the files the volume of home has room for in a run
    iextractDir, \* extractDir
    iroot,       \* rootDir, the root that DetectRoot returned to Install
    ipath,       \* installPath, the path Install returned
    ierr,        \* the error Install returned
    serr,        \* the error UpdateShims returned
    ifs0,        \* the file system when Install was called
    ifs1,        \* the file system when Install returned
    ilog         \* per version whose last run succeeded: its tree, the install made

VARIABLES
    \* ---- calls of the config package
    cres,        \* the last call and what it returned
    cset         \* per package the version of its latest SetActive

VARIABLES
    \* ---- the use and which commands, and the context of the commands
    ucmd,        \* the last use or which command and what it returned
    cmdFailed,   \* some command so far returned an error
    icancel      \* where the run was when its context was cancelled, or "no"

VARIABLES
    \* ---- two install commands that run at the same time
    pipes        \* per command: its place, its key and its locals

VARIABLES
    \* ---- the init command
    shell,       \* the value of $SHELL
    initc        \* the last run of the init command and what it reported

VARIABLES
    \* ---- a fetch with a progress sink beside one without
    prog         \* the answers of the server, and where the two calls are

VARIABLES
    \* ---- calls of the registry client
    reg          \* the last call, what the server answered and what it returned

VARIABLES
    \* ---- one install request from the download to the launchers
    req          \* its place, its key, its fetch, the stages started and
                 \* what each returned, the file system it started from

verifyVars == <<vpc, vdata, vexpected, verr>>

configVars == <<cres, cset>>

useVars == <<ucmd, cmdFailed, icancel>>

lateVars == <<shell, initc, prog, reg, req>>

commandVars == <<configVars, useVars, pipes, lateVars>>


installVars == <<ipc, iruns, crossDevice, hasSymlinks, iversion, itree, iroom,
                 iextractDir, iroot, ipath, ierr, serr, ifs0, ifs1, ilog>>

extractLocals == <<epc, earchive, eassetType, echecksum, etmp, eidx, eret, eerr>>

extractVars == <<fs, extractLocals>>

fetchVars == <<fpc, furl, fexpected, ctxErr, attempt, lastErr, fdata, ferr,
               history, requests, waits, elapsed, woke, cancelledInWait>>

vars == <<verifyVars, fetchVars, extractVars, installVars, commandVars>>

(***************************************************************************)
(* Strings and errors                                                      *)
(***************************************************************************)

\* the nil error
Nil == <<>>

\* strings.HasPrefix(s, prefix)
HasPrefix(s, prefix) ==
    /\ Len(s) >= Len(prefix)
    /\ SubSeq(s, 1, Len(prefix)) = prefix

\* strings.TrimPrefix(s, prefix)
TrimPrefix(s, prefix) ==
    IF HasPrefix(s, prefix) THEN SubSeq(s, Len(prefix) + 1, Len(s)) ELSE s

\* strings.Contains(s, substr)
Contains(s, substr) ==
    \E i \in 1..(Len(s) - Len(substr) + 1) :
        SubSeq(s, i, i + Len(substr) - 1) = substr

\* the %d verb of fmt for a non-negative integer
RECURSIVE Itoa(_)
Itoa(n) ==
    LET digit == <<"0","1","2","3","4","5","6","7","8","9">>[(n % 10) + 1]
    IN  IF n < 10 THEN <<digit>> ELSE Itoa(n \div 10) \o <<digit>>

\* fmt.Errorf(prefix + "%w", err): a new error that wraps err
Wrapf(prefix, err) == <<prefix \o Head(err)>> \o err

(***************************************************************************)
(* ChecksumVerifier: encoding/hex, the digest, VerifyChecksum              *)
(***************************************************************************)

\* the length of the hex part of a checksum string
HexLen == 64

\* a decoder that knows the lower-case digits only
HexVal_LowerOnly(c) ==
    LET lower == <<"0","1","2","3","4","5","6","7","8","9","a","b","c","d","e","f">>
    IN  IF \E i \in 1..16 : lower[i] = c
        THEN (CHOOSE i \in 1..16 : lower[i] = c) - 1
        ELSE 16

\* the value of a hex digit, 16 for a character that is none
\* (encoding/hex's reverseHexTable: both cases decode)
HexVal(c) ==
    LET lower == <<"0","1","2","3","4","5","6","7","8","9","a","b","c","d","e","f">>
        upper == <<"0","1","2","3","4","5","6","7","8","9","A","B","C","D","E","F">>
    IN  IF \E i \in 1..16 : lower[i] = c
        THEN (CHOOSE i \in 1..16 : lower[i] = c) - 1
        ELSE IF \E i \in 1..16 : upper[i] = c
        THEN (CHOOSE i \in 1..16 : upper[i] = c) - 1
        ELSE 16

\* hex.EncodeToString: two lower-case digits per byte
EncodeToString(bytes) ==
    LET table == <<"0","1","2","3","4","5","6","7","8","9","a","b","c","d","e","f">>
    IN  [i \in 1..(2 * Len(bytes)) |->
            IF i % 2 = 1 THEN table[(bytes[(i + 1) \div 2] \div 16) + 1]
                         ELSE table[(bytes[i \div 2] % 16) + 1]]

\* the error of hex.DecodeString on a string of even length: the first
\* character that is no hex digit, as an InvalidByteError
HexDecodeError(s) ==
    IF \A i \in 1..Len(s) : HexVal(s[i]) < 16 THEN Nil
    ELSE LET i == CHOOSE k \in 1..Len(s) :
                      /\ HexVal(s[k]) = 16
                      /\ \A j \in 1..(k - 1) : HexVal(s[j]) < 16
         IN  << <<"e","n","c","o","d","i","n","g","/","h","e","x",":"," ",
                  "i","n","v","a","l","i","d"," ","b","y","t","e",":"," ">>
                \o <<s[i]>> >>

\* the bytes of hex.DecodeString on a string of hex digits of even length
DecodeString(s) ==
    [i \in 1..(Len(s) \div 2) |-> 16 * HexVal(s[2 * i - 1]) + HexVal(s[2 * i])]

\* sha256.Sum256: a 32-byte digest of the content.  The digest function is a
\* stand-in of the same shape (a fixed function of every byte and of the
\* length), distinct on the contents the model draws.
\* (h is never negative: the test h < 0 has TLC evaluate h at every byte
\* rather than at the end of a long content.)
RECURSIVE Absorb(_, _)
Absorb(h, data) ==
    IF data = <<>> \/ h < 0 THEN h
    ELSE Absorb((h * 33 + Head(data) + 1) % 65521, Tail(data))

Sum256(data) ==
    LET h == Absorb(5381, data)
    IN  [i \in 1..(HexLen \div 2) |->
            IF i = 1 THEN h % 256
            ELSE IF i = 2 THEN h \div 256
            ELSE (h * i + 7 * i) % 256]

\* a comparison of the lengths alone
equalBytes_LengthOnly(a, b) == Len(a) = Len(b)

\* equalBytes: the lengths are equal and the OR over i of a[i] ^ b[i] is 0,
\* that is no position holds two different bytes
equalBytes(a, b) ==
    IF Len(a) # Len(b) THEN FALSE
    ELSE {i \in 1..Len(a) : a[i] # b[i]} = {}

\* the three format errors of VerifyChecksum, by their text
ErrNoPrefix ==
    << <<"i","n","v","a","l","i","d"," ","c","h","e","c","k","s","u","m"," ",
         "f","o","r","m","a","t",":"," ","m","u","s","t"," ","s","t","a","r","t"," ",
         "w","i","t","h"," ","'","s","h","a","2","5","6",":","'">> >>

ErrLength(n) ==
    << <<"i","n","v","a","l","i","d"," ","c","h","e","c","k","s","u","m"," ",
         "l","e","n","g","t","h",":"," ","e","x","p","e","c","t","e","d"," ",
         "6","4"," ","h","e","x"," ","c","h","a","r","a","c","t","e","r","s",","," ",
         "g","o","t"," ">> \o Itoa(n) >>

ErrHex(err) ==
    Wrapf(<<"i","n","v","a","l","i","d"," ","c","h","e","c","k","s","u","m"," ",
            "h","e","x",":"," ">>, err)

\* the mismatch error: the expected string as given, the actual digest
ErrMismatch(expected, hash) ==
    << <<"c","h","e","c","k","s","u","m"," ","m","i","s","m","a","t","c","h",":"," ",
         "e","x","p","e","c","t","e","d"," ">>
       \o expected
       \o <<","," ","g","o","t"," ","s","h","a","2","5","6",":">>
       \o EncodeToString(hash) >>

\* a verifier that checks the form of the string and compares nothing
VerifyChecksum_FormatOnly(data, expected) ==
    LET prefix == <<"s","h","a","2","5","6",":">>
        expectedHex == TrimPrefix(expected, prefix)
    IN  IF ~HasPrefix(expected, prefix) THEN ErrNoPrefix
        ELSE IF Len(expectedHex) # HexLen THEN ErrLength(Len(expectedHex))
        ELSE IF HexDecodeError(expectedHex) # Nil
             THEN ErrHex(HexDecodeError(expectedHex))
        ELSE Nil

\* VerifyChecksum(data, expected): Nil, or the error
VerifyChecksum(data, expected) ==
    LET prefix == <<"s","h","a","2","5","6",":">>
        expectedHex == TrimPrefix(expected, prefix)
        hash == Sum256(data)
    IN  IF ~HasPrefix(expected, prefix) THEN ErrNoPrefix
        ELSE IF Len(expectedHex) # HexLen THEN ErrLength(Len(expectedHex))
        ELSE IF HexDecodeError(expectedHex) # Nil
             THEN ErrHex(HexDecodeError(expectedHex))
        ELSE IF ~equalBytes(hash, DecodeString(expectedHex))
             THEN ErrMismatch(expected, hash)
        ELSE Nil

(***************************************************************************)
(* Inputs: contents and checksum strings                                   *)
(***************************************************************************)

\* "hello, world", the payload of TestFetch and TestVerifyChecksum
HelloWorld == <<104,101,108,108,111,44,32,119,111,114,108,100>>

Contents == {<<>>, <<104>>, <<104, 105>>, HelloWorld}

\* "sha256:" + hex.EncodeToString(hash[:]), as the tests build it
ChecksumOf(data) ==
    <<"s","h","a","2","5","6",":">> \o EncodeToString(Sum256(data))

\* the string with its hex letters in upper case
ToUpperHex(s) ==
    [i \in 1..Len(s) |->
        IF i > 7 /\ HexVal(s[i]) \in 10..15
        THEN <<"A","B","C","D","E","F">>[HexVal(s[i]) - 9]
        ELSE s[i]]

\* the string with every second hex letter in upper case
ToMixedHex(s) ==
    [i \in 1..Len(s) |-> IF i % 2 = 0 THEN ToUpperHex(s)[i] ELSE s[i]]

\* checksum strings of the accepted form
WellFormedChecksums ==
    UNION {{ChecksumOf(c), ToUpperHex(ChecksumOf(c))} : c \in Contents}
        \cup {ToMixedHex(ChecksumOf(HelloWorld))}

\* checksum strings of every other form: the four of
\* TestVerifyChecksumInvalidFormat, then a wrong length on either side, a
\* character that is no hex digit, a prefix in upper case, no prefix,
\* another algorithm tag
MalformedChecksums ==
    LET good == ChecksumOf(HelloWorld)
        hex == TrimPrefix(good, <<"s","h","a","2","5","6",":">>)
    IN  { <<"m","d","5",":","a","b","c","d">>,
          <<"s","h","a","2","5","6",":">>,
          <<"i","n","v","a","l","i","d">>,
          <<"s","h","a","2","5","6",":","a","b","c">>,
          SubSeq(good, 1, Len(good) - 1),
          good \o <<"0">>,
          [good EXCEPT ![20] = "g"],
          [good EXCEPT ![Len(good)] = ":"],
          <<"S","H","A","2","5","6",":">> \o hex,
          hex,
          <<" ">> \o good,
          <<"m","d","5",":">> \o hex }

ChecksumStrings == WellFormedChecksums \cup MalformedChecksums

(***************************************************************************)
(* One call of VerifyChecksum on drawn inputs                              *)
(***************************************************************************)

VerifyOff ==
    /\ vpc = "off"
    /\ vdata = <<>>
    /\ vexpected = <<>>
    /\ verr = Nil

VerifyInit ==
    /\ vpc = "call"
    /\ vdata \in Contents
    /\ vexpected \in ChecksumStrings
    /\ verr = Nil

VerifyCall ==
    /\ vpc = "call"
    /\ verr' = VerifyChecksum(vdata, vexpected)
    /\ vpc' = "ret"
    /\ UNCHANGED <<vdata, vexpected>>

(***************************************************************************)
(* Fetcher                                                                 *)
(***************************************************************************)

maxRetries == 3

\* retryDelay, in time units (one unit is one second)
retryDelay == 1

\* the url arguments: a plain one, one whose path holds the word
\* "connection", and one that http.NewRequestWithContext rejects (a
\* control character, written "^", in it)
URLs ==
    { <<"h","t","t","p",":","/","/","h","/","a">>,
      <<"h","t","t","p",":","/","/","h","/","c","o","n","n","e","c","t","i","o","n">>,
      <<"h","t","t","p",":","/","/","h","/","^">> }

\* the %q verb of fmt on a string without characters to escape
Quote(s) == <<"\"">> \o s \o <<"\"">>

\* the two errors of a done context
Canceled == << <<"c","o","n","t","e","x","t"," ","c","a","n","c","e","l","e","d">> >>

DeadlineExceeded ==
    << <<"c","o","n","t","e","x","t"," ","d","e","a","d","l","i","n","e"," ",
         "e","x","c","e","e","d","e","d">> >>

\* the error of http.NewRequestWithContext: the *url.Error of url.Parse
NewRequestError(url) ==
    IF Contains(url, <<"^">>)
    THEN Wrapf(<<"p","a","r","s","e"," ">> \o Quote(url) \o <<":"," ">>,
               << <<"n","e","t","/","u","r","l",":"," ","i","n","v","a","l","i","d"," ",
                    "c","o","n","t","r","o","l"," ","c","h","a","r","a","c","t","e","r"," ",
                    "i","n"," ","U","R","L">> >>)
    ELSE Nil

\* the error of client.Do: a *url.Error, Get "<url>": <cause>
DoError(url, cause) ==
    Wrapf(<<"G","e","t"," ">> \o Quote(url) \o <<":"," ">>, cause)

\* the failures of the transport before a response: dial refused, dial
\* timed out, the host does not resolve, the server closed the connection
\* without an answer.  reached: whether the server received the request.
TransportFailures ==
    { [cause |-> << <<"d","i","a","l"," ","t","c","p"," ","1","0",".","0",".","0",".","1",
                      ":","8","0",":"," ","c","o","n","n","e","c","t",":"," ",
                      "c","o","n","n","e","c","t","i","o","n"," ",
                      "r","e","f","u","s","e","d">> >>,
       reached |-> FALSE],
      [cause |-> << <<"d","i","a","l"," ","t","c","p"," ","1","0",".","0",".","0",".","1",
                      ":","8","0",":"," ","i","/","o"," ","t","i","m","e","o","u","t">> >>,
       reached |-> FALSE],
      [cause |-> << <<"d","i","a","l"," ","t","c","p",":"," ","l","o","o","k","u","p"," ",
                      "h",":"," ","n","o"," ","s","u","c","h"," ","h","o","s","t">> >>,
       reached |-> FALSE],
      [cause |-> << <<"E","O","F">> >>,
       reached |-> TRUE] }

\* the failures of reading the body of a 2xx response (io.ReadAll)
BodyFailures ==
    { << <<"u","n","e","x","p","e","c","t","e","d"," ","E","O","F">> >>,
      << <<"r","e","a","d"," ","t","c","p"," ","1","0",".","0",".","0",".","2",":","5",
           "-",">","1","0",".","0",".","0",".","1",":","8","0",":"," ",
           "r","e","a","d",":"," ","c","o","n","n","e","c","t","i","o","n"," ",
           "r","e","s","e","t"," ","b","y"," ","p","e","e","r">> >> }

\* the responses of a server: resp.StatusCode and the reason phrase of its
\* status line (resp.Status is the code, a space and the reason phrase)
Responses ==
    { [code |-> 200, reason |-> <<"O","K">>],
      [code |-> 404, reason |-> <<"N","o","t"," ","F","o","u","n","d">>],
      [code |-> 429, reason |-> <<"T","o","o"," ","M","a","n","y"," ",
                                  "R","e","q","u","e","s","t","s">>],
      [code |-> 429, reason |-> <<"T","o","o"," ","m","a","n","y"," ",
                                  "c","o","n","n","e","c","t","i","o","n","s">>],
      [code |-> 500, reason |-> <<"I","n","t","e","r","n","a","l"," ",
                                  "S","e","r","v","e","r"," ","E","r","r","o","r">>],
      [code |-> 503, reason |-> <<"S","e","r","v","i","c","e"," ",
                                  "U","n","a","v","a","i","l","a","b","l","e">>] }

\* fmt.Errorf("HTTP %d: %s", resp.StatusCode, resp.Status)
StatusError(resp) ==
    << <<"H","T","T","P"," ">> \o Itoa(resp.code) \o <<":"," ">>
       \o Itoa(resp.code) \o <<" ">> \o resp.reason >>

\* one result of fetchOnce: the path it took (kind), the response code (0
\* without a response), the data (<<>> for nil, <<b>> for the body b), the
\* error, whether the server received the request, and the error of the
\* context when it became done during the call (Nil otherwise)
FetchOnceResult(kind, code, data, err, reached, done) ==
    [kind |-> kind, code |-> code, data |-> data, err |-> err,
     reached |-> reached, done |-> done]

\* fetchOnce(ctx, url, progressWriter): every result the call can have
fetchOnce(url, ctxe) ==
    IF NewRequestError(url) # Nil
    THEN {FetchOnceResult("request", 0, <<>>, NewRequestError(url), FALSE, Nil)}
    ELSE IF ctxe # Nil
    THEN {FetchOnceResult("transport", 0, <<>>, DoError(url, ctxe), FALSE, Nil)}
    ELSE {FetchOnceResult("transport", 0, <<>>, DoError(url, f.cause), f.reached, Nil) :
              f \in TransportFailures}
         \cup {FetchOnceResult("transport", 0, <<>>, DoError(url, e), TRUE, e) :
                  e \in {Canceled, DeadlineExceeded}}
         \cup {FetchOnceResult("status", r.code, <<>>, StatusError(r), TRUE, Nil) :
                  r \in {x \in Responses : x.code < 200 \/ x.code >= 300}}
         \cup {FetchOnceResult("body", r.code, <<>>, e, TRUE, Nil) :
                  r \in {x \in Responses : ~(x.code < 200 \/ x.code >= 300)},
                  e \in BodyFailures}
         \cup {FetchOnceResult("ok", r.code, <<b>>, Nil, TRUE, Nil) :
                  r \in {x \in Responses : ~(x.code < 200 \/ x.code >= 300)},
                  b \in Contents}

\* a backoff that does not grow with the attempt
Backoff_Constant(n) == retryDelay

\* retryDelay * time.Duration(attempt), the wait before attempt n + 1
Backoff(n) == retryDelay * n

\* a test that forgets the server errors
isRetryableError_NoServerError(err) ==
    IF err = Nil THEN FALSE
    ELSE LET errStr == Head(err)
         IN  \/ Contains(errStr, <<"t","i","m","e","o","u","t">>)
             \/ Contains(errStr, <<"c","o","n","n","e","c","t","i","o","n">>)

\* isRetryableError(err)
isRetryableError(err) ==
    IF err = Nil THEN FALSE
    ELSE LET errStr == Head(err)
         IN  \/ Contains(errStr, <<"t","i","m","e","o","u","t">>)
             \/ Contains(errStr, <<"c","o","n","n","e","c","t","i","o","n">>)
             \/ Contains(errStr, <<"H","T","T","P"," ","5">>)

\* fmt.Errorf("checksum verification failed: %w", err)
ErrVerificationFailed(err) ==
    Wrapf(<<"c","h","e","c","k","s","u","m"," ","v","e","r","i","f","i","c","a","t","i","o","n",
            " ","f","a","i","l","e","d",":"," ">>, err)

\* fmt.Errorf("failed after %d attempts: %w", maxRetries, lastErr)
ErrExhausted(n, err) ==
    Wrapf(<<"f","a","i","l","e","d"," ","a","f","t","e","r"," ">> \o Itoa(n)
          \o <<" ","a","t","t","e","m","p","t","s",":"," ">>, err)

\* the expectedChecksum arguments
FetchChecksums ==
    { ChecksumOf(HelloWorld),
      ToUpperHex(ChecksumOf(<<104>>)),
      ChecksumOf(<<>>),
      <<"m","d","5",":","a","b","c","d">> }

FetchOff ==
    /\ fpc = "off"
    /\ furl = <<>>
    /\ fexpected = <<>>
    /\ ctxErr = Nil
    /\ attempt = 0
    /\ lastErr = Nil
    /\ fdata = <<>>
    /\ ferr = Nil
    /\ history = <<>>
    /\ requests = 0
    /\ waits = <<>>
    /\ elapsed = 0
    /\ woke = "none"
    /\ cancelledInWait = 0

\* Fetch(ctx, url, expectedChecksum) is called: attempt := 0
FetchInit ==
    /\ fpc = "attempt"
    /\ furl \in URLs
    /\ fexpected \in FetchChecksums
    /\ ctxErr = Nil
    /\ attempt = 0
    /\ lastErr = Nil
    /\ fdata = <<>>
    /\ ferr = Nil
    /\ history = <<>>
    /\ requests = 0
    /\ waits = <<>>
    /\ elapsed = 0
    /\ woke = "none"
    /\ cancelledInWait = 0

\* return data, err
FetchReturn(data, err) ==
    /\ fpc' = "done"
    /\ fdata' = data
    /\ ferr' = err

\* the context becomes done (the user interrupts, or its deadline passes);
\* a select that is blocked in the backoff wait is woken by ctx.Done()
Cancel ==
    /\ fpc \in {"attempt", "wait"}
    /\ ctxErr = Nil
    /\ ctxErr' \in {Canceled, DeadlineExceeded}
    /\ IF fpc = "wait" /\ woke = "none"
       THEN woke' = "done" /\ cancelledInWait' = Len(history)
       ELSE UNCHANGED <<woke, cancelledInWait>>
    /\ UNCHANGED <<fpc, furl, fexpected, attempt, lastErr, fdata, ferr,
                   history, requests, waits, elapsed>>

\* one time unit passes in the backoff wait; the timer of
\* time.After(retryDelay * attempt) fires at its end and wakes the select
Tick ==
    /\ fpc = "wait"
    /\ woke = "none"
    /\ elapsed' = elapsed + 1
    /\ woke' = IF elapsed' = Backoff(attempt) THEN "timer" ELSE "none"
    /\ UNCHANGED <<fpc, furl, fexpected, ctxErr, attempt, lastErr, fdata, ferr,
                   history, requests, waits, cancelledInWait>>

\* the select of the backoff wait returns: case <-ctx.Done() returns
\* ctx.Err(), case <-time.After(...) goes on to the next attempt
FetchWake ==
    /\ fpc = "wait"
    /\ woke # "none"
    /\ IF woke = "done"
       THEN /\ FetchReturn(<<>>, ctxErr)
            /\ UNCHANGED waits
       ELSE /\ fpc' = "attempt"
            /\ waits' = Append(waits, elapsed)
            /\ UNCHANGED <<fdata, ferr>>
    /\ UNCHANGED <<furl, fexpected, ctxErr, attempt, lastErr, history, requests,
                   elapsed, woke, cancelledInWait>>

\* one pass of the loop body from fetchOnce on, with the loop's step and
\* test and the entry into the next select: r is the result of fetchOnce
FetchAttemptWith(r) ==
    /\ history' = Append(history, r)
    /\ requests' = IF r.reached THEN requests + 1 ELSE requests
    /\ ctxErr' = IF r.done # Nil THEN r.done ELSE ctxErr
    /\ IF r.err # Nil
       THEN /\ lastErr' = r.err
            /\ IF isRetryableError(r.err)
               THEN /\ attempt' = attempt + 1
                    /\ IF attempt' < maxRetries
                       THEN /\ fpc' = "wait"
                            /\ elapsed' = 0
                            /\ woke' = IF ctxErr' # Nil THEN "done" ELSE "none"
                            /\ UNCHANGED <<fdata, ferr>>
                       ELSE /\ FetchReturn(<<>>, ErrExhausted(maxRetries, lastErr'))
                            /\ UNCHANGED <<elapsed, woke>>
               ELSE /\ FetchReturn(<<>>, r.err)
                    /\ UNCHANGED <<attempt, elapsed, woke>>
       ELSE /\ IF VerifyChecksum(r.data[1], fexpected) # Nil
               THEN FetchReturn(<<>>, ErrVerificationFailed(
                                          VerifyChecksum(r.data[1], fexpected)))
               ELSE FetchReturn(r.data, Nil)
            /\ UNCHANGED <<attempt, lastErr, elapsed, woke>>
    /\ UNCHANGED <<furl, fexpected, waits, cancelledInWait>>

FetchAttempt ==
    /\ fpc = "attempt"
    /\ \E r \in fetchOnce(furl, ctxErr) : FetchAttemptWith(r)

(***************************************************************************)
(* Paths (path/filepath on a POSIX target) and the file system             *)
(***************************************************************************)

\* strings.Split(s, "/")
RECURSIVE Split(_)
Split(s) ==
    IF \A i \in 1..Len(s) : s[i] # "/" THEN <<s>>
    ELSE LET i == CHOOSE k \in 1..Len(s) :
                      s[k] = "/" /\ \A j \in 1..(k - 1) : s[j] # "/"
         IN  <<SubSeq(s, 1, i - 1)>> \o Split(SubSeq(s, i + 1, Len(s)))

\* strings.Join(elems, "/")
RECURSIVE JoinSlash(_)
JoinSlash(elems) ==
    IF elems = <<>> THEN <<>>
    ELSE IF Len(elems) = 1 THEN elems[1]
    ELSE elems[1] \o <<"/">> \o JoinSlash(Tail(elems))

\* the element loop of filepath.Clean: empty and "." elements are dropped,
\* ".." removes the element before it, is dropped at the root, and is kept
\* at the start of a relative path
RECURSIVE CleanElems(_, _, _)
CleanElems(out, elems, rooted) ==
    IF elems = <<>> THEN out
    ELSE LET c == Head(elems)
             rest == Tail(elems)
         IN  IF c = <<>> \/ c = <<".">> THEN CleanElems(out, rest, rooted)
             ELSE IF c = <<".", ".">>
             THEN IF out # <<>> /\ out[Len(out)] # <<".", ".">>
                  THEN CleanElems(SubSeq(out, 1, Len(out) - 1), rest, rooted)
                  ELSE IF rooted THEN CleanElems(out, rest, rooted)
                  ELSE CleanElems(Append(out, c), rest, rooted)
             ELSE CleanElems(Append(out, c), rest, rooted)

\* filepath.IsAbs(path)
IsAbs(path) == HasPrefix(path, <<"/">>)

\* filepath.Clean(path)
Clean(path) ==
    LET Joined(out) ==
            IF IsAbs(path) THEN <<"/">> \o JoinSlash(out)
            ELSE IF out = <<>> THEN <<".">>
            ELSE JoinSlash(out)
    IN  Joined(CleanElems(<<>>, Split(path), IsAbs(path)))

\* filepath.Join(a, b) for a non-empty a
Join(a, b) == IF b = <<>> THEN Clean(a) ELSE Clean(a \o <<"/">> \o b)

\* filepath.Dir(path)
Dir(path) ==
    LET UpTo(elems) ==
            IF Len(elems) = 1 THEN <<>>
            ELSE IF Len(elems) = 2 /\ elems[1] = <<>> THEN <<"/">>
            ELSE JoinSlash(SubSeq(elems, 1, Len(elems) - 1))
    IN  Clean(UpTo(Split(path)))

\* filepath.Rel(basepath, targpath) for two absolute paths: ".." for every
\* element of the base after the common prefix, then the rest of the target
Rel(basepath, targpath) ==
    LET Common(b, t) ==
            CHOOSE n \in 0..Len(b) :
                /\ n <= Len(t)
                /\ SubSeq(b, 1, n) = SubSeq(t, 1, n)
                /\ (n < Len(b) /\ n < Len(t)) => b[n + 1] # t[n + 1]
        Ups(b, t, common) ==
            [i \in 1..(Len(b) - common) |-> <<".", ".">>]
            \o SubSeq(t, common + 1, Len(t))
        Joined(rel) == IF rel = <<>> THEN <<".">> ELSE JoinSlash(rel)
        Between(b, t) == Joined(Ups(b, t, Common(b, t)))
    IN  Between(CleanElems(<<>>, Split(basepath), TRUE),
                CleanElems(<<>>, Split(targpath), TRUE))

\* path is dir or lies under it
IsUnder(path, dir) ==
    \/ path = dir
    \/ HasPrefix(path, IF dir = <<"/">> THEN dir ELSE dir \o <<"/">>)

\* The file system maps each existing absolute path to its node: a
\* directory, or a regular file with its content; both with their
\* permission bits.
DirNode(perm) == [kind |-> "dir", mode |-> perm, data |-> <<>>]

FileNode(perm, data) == [kind |-> "file", mode |-> perm, data |-> data]

\* the result of a file system call: the file system after it, its error
FsResult(f, err) == [fs |-> f, err |-> err]

\* the errors of the operating system
ENOTDIR == << <<"n","o","t"," ","a"," ","d","i","r","e","c","t","o","r","y">> >>

EISDIR == << <<"i","s"," ","a"," ","d","i","r","e","c","t","o","r","y">> >>

ENOSPC == << <<"n","o"," ","s","p","a","c","e"," ","l","e","f","t"," ","o","n"," ",
               "d","e","v","i","c","e">> >>

ENOENT == << <<"n","o"," ","s","u","c","h"," ","f","i","l","e"," ","o","r"," ",
               "d","i","r","e","c","t","o","r","y">> >>

EXDEV == << <<"i","n","v","a","l","i","d"," ","c","r","o","s","s","-",
              "d","e","v","i","c","e"," ","l","i","n","k">> >>

ENOTEMPTY == << <<"d","i","r","e","c","t","o","r","y"," ","n","o","t"," ",
                  "e","m","p","t","y">> >>

EACCES == << <<"p","e","r","m","i","s","s","i","o","n"," ","d","e","n","i",
      "e","d">> >>

EEXIST == << <<"f","i","l","e"," ","e","x","i","s","t","s">> >>

\* os.MkdirAll(path, perm): nil when path is a directory, an error when it
\* is a file; else the parents are made first, then path
RECURSIVE MkdirAll(_, _, _)
MkdirAll(f, path, perm) ==
    IF path \in DOMAIN f
    THEN FsResult(f, IF f[path].kind = "dir" THEN Nil ELSE ENOTDIR)
    ELSE LET r == MkdirAll(f, Dir(path), perm)
         IN  IF r.err # Nil THEN r
             ELSE FsResult(r.fs @@ (path :> DirNode(perm)), Nil)

\* os.OpenFile(path, O_CREATE|O_WRONLY|O_TRUNC, perm), the io.Copy of the
\* data into it, and Close: an existing file keeps its mode, a symbolic
\* link is followed.  The user is not the superuser: an existing file
\* without the write bit of its owner (0200) cannot be opened for writing.
RECURSIVE WriteFile(_, _, _, _)
WriteFile(f, path, perm, data) ==
    IF path \in DOMAIN f
    THEN IF f[path].kind = "dir" THEN FsResult(f, EISDIR)
         ELSE IF f[path].kind = "symlink" THEN WriteFile(f, f[path].target, perm, data)
         ELSE IF (f[path].mode \div 128) % 2 = 0 THEN FsResult(f, EACCES)
         ELSE FsResult([f EXCEPT ![path] = FileNode(f[path].mode, data)], Nil)
    ELSE IF Dir(path) \notin DOMAIN f \/ f[Dir(path)].kind # "dir"
         THEN FsResult(f, ENOTDIR)
         ELSE FsResult(f @@ (path :> FileNode(perm, data)), Nil)

\* a removal that removes nothing
RemoveAll_Nothing(f, path) == f

\* os.RemoveAll(path): path and everything under it
RemoveAll(f, path) ==
    [q \in {x \in DOMAIN f : ~IsUnder(x, path)} |-> f[q]]

\* a symbolic link to target
SymlinkNode(target) ==
    [kind |-> "symlink", mode |-> 511, data |-> <<>>, target |-> target]

\* the printable characters of ASCII, from the space (32) to the tilde
\* (126); the backslash (92) and the backquote (96), which no path of the
\* model holds, are left out
Ascii ==
    <<" ","!","\"","#","$","%","&","'","(",")","*","+",",","-",".","/",
      "0","1","2","3","4","5","6","7","8","9",":",";","<","=",">","?",
      "@","A","B","C","D","E","F","G","H","I","J","K","L","M","N","O",
      "P","Q","R","S","T","U","V","W","X","Y","Z","[","","]","^","_",
      "","a","b","c","d","e","f","g","h","i","j","k","l","m","n","o",
      "p","q","r","s","t","u","v","w","x","y","z","{","|","}","~">>

\* []byte(s): the code of every character, 10 for the newline
Bytes(s) ==
    [i \in 1..Len(s) |->
        IF s[i] = "\n" THEN 10
        ELSE 31 + (CHOOSE k \in 1..Len(Ascii) : Ascii[k] = s[i])]

\* filepath.Base(path) of a cleaned path
Base(path) ==
    LET Last(elems) == IF elems[Len(elems)] = <<>> THEN <<"/">> ELSE elems[Len(elems)]
    IN  Last(Split(path))

\* a < b for two strings, byte by byte
Less(a, b) ==
    LET Before(x, y) ==
            \E i \in 1..Len(y) :
                /\ \A j \in 1..(i - 1) : j <= Len(x) /\ x[j] = y[j]
                /\ i > Len(x) \/ x[i] < y[i]
    IN  Before(Bytes(a), Bytes(b))

\* the path a path names once symbolic links at its end are followed
RECURSIVE Resolve(_, _)
Resolve(f, path) ==
    IF path \in DOMAIN f /\ f[path].kind = "symlink"
    THEN Resolve(f, f[path].target)
    ELSE path

\* the error of os.Stat(path), nil when the path exists: ENOTDIR below a
\* file, else ENOENT
RECURSIVE StatError(_, _)
StatError(f, path) ==
    LET Below(parentErr) ==
            IF parentErr # Nil THEN parentErr
            ELSE IF f[Resolve(f, Dir(path))].kind = "dir" THEN ENOENT
            ELSE ENOTDIR
    IN  IF Resolve(f, path) \in DOMAIN f THEN Nil
        ELSE Below(StatError(f, Dir(path)))

\* os.IsNotExist(err)
IsNotExist(err) == err = ENOENT

\* os.ReadDir(dir): the names of the entries of the directory, sorted
ReadDir(f, dir) ==
    LET Sorted(names) ==
            [i \in 1..Cardinality(names) |->
                CHOOSE n \in names : Cardinality({m \in names : Less(m, n)}) = i - 1]
    IN  Sorted({Base(p) : p \in {q \in DOMAIN f : q # dir /\ Dir(q) = dir}})

\* the file system with the tree at src moved to dst
Moved(f, src, dst) ==
    LET kept == {p \in DOMAIN f : ~IsUnder(p, src) /\ ~IsUnder(p, dst)}
        moved == {p \in DOMAIN f : IsUnder(p, src)}
        To(p) == dst \o SubSeq(p, Len(src) + 1, Len(p))
    IN  [q \in kept \cup {To(p) : p \in moved} |->
            IF q \in kept THEN f[q]
            ELSE f[src \o SubSeq(q, Len(dst) + 1, Len(q))]]

\* os.Rename(src, dst) for an existing src.  xdev: the two paths lie on
\* different volumes.  A file replaces a file or a link, a directory
\* replaces an empty directory.
Rename(f, src, dst, xdev) ==
    IF xdev THEN FsResult(f, EXDEV)
    ELSE IF dst \notin DOMAIN f THEN FsResult(Moved(f, src, dst), Nil)
    ELSE IF f[src].kind = "dir"
    THEN IF f[dst].kind # "dir" THEN FsResult(f, ENOTDIR)
         ELSE IF \E p \in DOMAIN f : p # dst /\ IsUnder(p, dst)
         THEN FsResult(f, ENOTEMPTY)
         ELSE FsResult(Moved(f, src, dst), Nil)
    ELSE IF f[dst].kind = "dir" THEN FsResult(f, EISDIR)
         ELSE FsResult(Moved(f, src, dst), Nil)

\* the file system before any call: the root, the directory of temporary
\* files, and files of the user beside them
BaseFS ==
    (<<"/">> :> DirNode(493))
    @@ (<<"/","t","m","p">> :> DirNode(511))
    @@ (<<"/","e">> :> FileNode(420, <<1>>))
    @@ (<<"/","t","m","p","/","e">> :> FileNode(420, <<2>>))

(***************************************************************************)
(* ArchiveExtractor                                                        *)
(***************************************************************************)

\* the entries an archive may hold
MaxEntries == 2

\* One entry as the tar and zip readers hand it out: its name, its type
\* ("dir", "reg" or "symlink"), its permission bits and its content.
Entry(name, typ, mode, data) ==
    [name |-> name, typ |-> typ, mode |-> mode, data |-> data]

\* the entries of the test archives (test.txt, testdir/, testdir/file.txt,
\* ../evil.txt, /etc/passwd) under short names, and names that put a
\* parent-directory segment or two dots elsewhere
Entries ==
    { Entry(<<"a">>, "reg", 420, <<104>>),
      Entry(<<"d","/">>, "dir", 493, <<>>),
      Entry(<<"d","/","a">>, "reg", 493, <<104, 105>>),
      Entry(<<".",".","/","e">>, "reg", 420, <<101>>),
      Entry(<<"/","e">>, "reg", 420, <<101>>),
      Entry(<<"d","/",".",".","/","b">>, "reg", 420, <<98>>),
      Entry(<<"d","/",".",".","/",".",".","/","e">>, "dir", 493, <<>>),
      Entry(<<"a",".",".","b">>, "reg", 420, <<98>>),
      Entry(<<"a">>, "symlink", 511, <<47, 101>>) }

RECURSIVE SeqsUpTo(_, _)
SeqsUpTo(S, n) ==
    IF n = 0 THEN {<<>>}
    ELSE LET shorter == SeqsUpTo(S, n - 1)
         IN  shorter \cup {Append(q, x) : q \in shorter, x \in S}

\* An archive file: its format ("tar", "tgz", "zip" or "xz"), its entries,
\* and whether the file is cut off inside the block that follows them.
Archives ==
    [format : {"tar", "tgz", "zip", "xz"},
     entries : SeqsUpTo(Entries, MaxEntries),
     truncated : BOOLEAN]

\* The bytes of an archive file.  The layout is a stand-in for the real
\* ones: the magic bytes of the format (1f 8b for gzip), every entry with
\* its name, type, mode and content, and the end marker, or the part of it
\* that a file cut off still holds.
RECURSIVE EncodeEntries(_)
EncodeEntries(es) ==
    IF es = <<>> THEN <<>>
    ELSE LET h == Head(es)
             letters == <<"a","b","c","d","e","f","g","h","i","j","k","l","m",
                          "n","o","p","q","r","s","t","u","v","w","x","y","z">>
             code == [c \in {h.name[i] : i \in 1..Len(h.name)} |->
                         CASE c = "." -> 46 [] c = "/" -> 47
                           [] OTHER -> 96 + CHOOSE k \in 1..Len(letters) : letters[k] = c]
             typ == CASE h.typ = "reg" -> 48 [] h.typ = "symlink" -> 50
                      [] h.typ = "dir" -> 53
         IN  <<Len(h.name)>> \o [i \in 1..Len(h.name) |-> code[h.name[i]]]
             \o <<typ, h.mode \div 256, h.mode % 256, Len(h.data)>> \o h.data
             \o EncodeEntries(Tail(es))

Encode(a) ==
    (CASE a.format = "tgz" -> <<31, 139>>
       [] a.format = "zip" -> <<80, 75>>
       [] a.format = "xz" -> <<253, 55>>
       [] a.format = "tar" -> <<>>)
    \o EncodeEntries(a.entries)
    \o (IF a.truncated THEN <<0>> ELSE <<0, 0>>)

\* the asset types: the two of the manifest, and another one
AssetTypes == { <<"t","a","r">>, <<"z","i","p">>, <<"r","a","r">> }

\* the names os.MkdirTemp("", "nori-extract-*") may pick
TempNames ==
    { <<"/","t","m","p","/","n","o","r","i","-","e","x","t","r","a","c","t","-","1">>,
      <<"/","t","m","p","/","n","o","r","i","-","e","x","t","r","a","c","t","-","2">> }

\* the result of sanitizePath: the path, or the error
PathResult(path, err) == [path |-> path, err |-> err]

\* a sanitizePath that joins the name to the destination and checks nothing
sanitizePath_Unchecked(name, destDir) ==
    PathResult(Join(destDir, Clean(name)), Nil)

\* sanitizePath(name, destDir)
sanitizePath(name, destDir) ==
    LET Within(fullPath) ==
            IF HasPrefix(Rel(destDir, fullPath), <<".", ".">>)
            THEN PathResult(<<>>, << <<"p","a","t","h"," ","e","s","c","a","p","e","s"," ",
                                       "d","e","s","t","i","n","a","t","i","o","n"," ",
                                       "d","i","r","e","c","t","o","r","y">> >>)
            ELSE PathResult(fullPath, Nil)
        Checked(clean) ==
            IF IsAbs(clean)
            THEN PathResult(<<>>, << <<"a","b","s","o","l","u","t","e"," ",
                                       "p","a","t","h","s"," ","a","r","e"," ","n","o","t"," ",
                                       "a","l","l","o","w","e","d">> >>)
            ELSE IF Contains(clean, <<".", ".">>)
            THEN PathResult(<<>>, << <<"p","a","t","h"," ","t","r","a","v","e","r","s","a","l"," ",
                                       "(",".",".",")"," ","i","s"," ","n","o","t"," ",
                                       "a","l","l","o","w","e","d">> >>)
            ELSE Within(Join(destDir, clean))
    IN  Checked(Clean(name))

\* the body of the entry loops of extractTar and extractZip for one entry h
\* of an archive of the given asset type: the file system after it and the
\* error.  full: the device is full, so that the copy into the file fails.
\* The tar reader gives no content for a symbolic link, the zip reader gives
\* its target.
ExtractOne(f, h, destDir, assetType, full) ==
    LET data == IF h.typ = "symlink" /\ assetType = <<"t","a","r">> THEN <<>> ELSE h.data
        Made(r) ==
            IF r.err = Nil THEN r
            ELSE FsResult(r.fs,
                     Wrapf(<<"f","a","i","l","e","d"," ","t","o"," ","c","r","e","a","t","e"," ",
                             "d","i","r","e","c","t","o","r","y",":"," ">>, r.err))
        Copied(r) ==
            IF r.err # Nil
            THEN FsResult(r.fs,
                     Wrapf(<<"f","a","i","l","e","d"," ","t","o"," ","c","r","e","a","t","e"," ",
                             "f","i","l","e",":"," ">>, r.err))
            ELSE IF full
            THEN FsResult(r.fs,
                     Wrapf(<<"f","a","i","l","e","d"," ","t","o"," ","w","r","i","t","e"," ",
                             "f","i","l","e",":"," ">>, ENOSPC))
            ELSE r
        Opened(parent, path) ==
            IF parent.err # Nil
            THEN FsResult(parent.fs,
                     Wrapf(<<"f","a","i","l","e","d"," ","t","o"," ","c","r","e","a","t","e"," ",
                             "p","a","r","e","n","t"," ",
                             "d","i","r","e","c","t","o","r","y",":"," ">>, parent.err))
            ELSE Copied(WriteFile(parent.fs, path, h.mode, IF full THEN <<>> ELSE data))
        Placed(sp) ==
            IF sp.err # Nil
            THEN FsResult(f, Wrapf(<<"i","n","v","a","l","i","d"," ","p","a","t","h"," ">>
                                   \o Quote(h.name) \o <<":"," ">>, sp.err))
            ELSE IF h.typ = "dir"
            THEN Made(MkdirAll(f, sp.path, h.mode))
            ELSE Opened(MkdirAll(f, Dir(sp.path), 493), sp.path)
    IN  Placed(sanitizePath(h.name, destDir))

\* fmt.Errorf("failed to extract tar: %w", err), or zip
ErrExtract(assetType, err) ==
    Wrapf(<<"f","a","i","l","e","d"," ","t","o"," ","e","x","t","r","a","c","t"," ">>
          \o assetType \o <<":"," ">>, err)

\* the error of the reader on data that hold no archive of its kind, or one
\* cut off (tar.Reader.Next, zip.NewReader)
ErrReader(assetType, truncated) ==
    IF assetType = <<"t","a","r">>
    THEN Wrapf(<<"f","a","i","l","e","d"," ","t","o"," ","r","e","a","d"," ","t","a","r"," ",
                 "h","e","a","d","e","r",":"," ">>,
               IF truncated
               THEN << <<"u","n","e","x","p","e","c","t","e","d"," ","E","O","F">> >>
               ELSE << <<"a","r","c","h","i","v","e","/","t","a","r",":"," ",
                         "i","n","v","a","l","i","d"," ","t","a","r"," ",
                         "h","e","a","d","e","r">> >>)
    ELSE Wrapf(<<"f","a","i","l","e","d"," ","t","o"," ","c","r","e","a","t","e"," ",
                 "z","i","p"," ","r","e","a","d","e","r",":"," ">>,
               << <<"z","i","p",":"," ","n","o","t"," ","a"," ","v","a","l","i","d"," ",
                    "z","i","p"," ","f","i","l","e">> >>)

\* the reader of the asset type finds an archive of its kind in the data:
\* extractTar unwraps gzip when the data starts with 1f 8b
Readable(a, assetType) ==
    LET data == Encode(a)
        gzip == Len(data) >= 2 /\ data[1] = 31 /\ data[2] = 139
    IN  IF assetType = <<"t","a","r">>
        THEN IF gzip THEN a.format = "tgz" ELSE a.format = "tar"
        ELSE a.format = "zip"

\* the checksum arguments for the data: their checksum, the checksum of
\* other data, and their digest without the sha256: prefix
ExtractChecksums(data) ==
    { ChecksumOf(data),
      ChecksumOf(HelloWorld),
      TrimPrefix(ChecksumOf(data), <<"s","h","a","2","5","6",":">>) }

\* Extract is not called
ExtractIdle ==
    /\ epc = "off"
    /\ earchive = [format |-> "tar", entries |-> <<>>, truncated |-> FALSE]
    /\ eassetType = <<>>
    /\ echecksum = <<>>
    /\ etmp = <<>>
    /\ eidx = 1
    /\ eret = <<>>
    /\ eerr = Nil

ExtractOff == fs = BaseFS /\ ExtractIdle

\* Extract(data, assetType, checksum) is called
ExtractInit ==
    /\ fs = BaseFS
    /\ epc = "call"
    /\ earchive \in Archives
    /\ eassetType \in AssetTypes
    /\ echecksum \in ExtractChecksums(Encode(earchive))
    /\ etmp = <<>>
    /\ eidx = 1
    /\ eret = <<>>
    /\ eerr = Nil

\* return "", err
ExtractFail(err) ==
    /\ epc' = "done"
    /\ eret' = <<>>
    /\ eerr' = err

\* Extract up to the entry loop: the checksum, os.MkdirTemp, the switch on
\* the asset type, and zip.NewReader
ExtractBegin ==
    /\ epc = "call"
    /\ IF VerifyChecksum(Encode(earchive), echecksum) # Nil
       THEN /\ ExtractFail(ErrVerificationFailed(
                               VerifyChecksum(Encode(earchive), echecksum)))
            /\ UNCHANGED <<fs, etmp>>
       ELSE \/ /\ ExtractFail(Wrapf(<<"f","a","i","l","e","d"," ","t","o"," ",
                                       "c","r","e","a","t","e"," ","t","e","m","p"," ",
                                       "d","i","r","e","c","t","o","r","y",":"," ">>, ENOSPC))
               /\ UNCHANGED <<fs, etmp>>
            \/ \E t \in TempNames \ DOMAIN fs :
                 LET made == fs @@ (t :> DirNode(448))
                 IN  /\ etmp' = t
                     /\ IF eassetType \notin {<<"t","a","r">>, <<"z","i","p">>}
                        THEN /\ fs' = RemoveAll(made, t)
                             /\ ExtractFail(
                                    << <<"u","n","s","u","p","p","o","r","t","e","d"," ",
                                         "a","s","s","e","t"," ","t","y","p","e",":"," ">>
                                       \o eassetType >>)
                        ELSE IF /\ eassetType = <<"z","i","p">>
                                /\ ~(Readable(earchive, eassetType) /\ ~earchive.truncated)
                        THEN /\ fs' = RemoveAll(made, t)
                             /\ ExtractFail(ErrExtract(eassetType,
                                                        ErrReader(eassetType, FALSE)))
                        ELSE /\ fs' = made
                             /\ epc' = "entries"
                             /\ UNCHANGED <<eret, eerr>>
    /\ UNCHANGED <<earchive, eassetType, echecksum, eidx>>

\* one pass of the entry loop that handles an entry, or fails to read one
ExtractEntry ==
    /\ epc = "entries"
    /\ \/ ~Readable(earchive, eassetType)
       \/ eidx <= Len(earchive.entries)
    /\ IF ~Readable(earchive, eassetType)
       THEN /\ fs' = RemoveAll(fs, etmp)
            /\ ExtractFail(ErrExtract(eassetType, ErrReader(eassetType, FALSE)))
            /\ UNCHANGED eidx
       ELSE \E full \in BOOLEAN :
              \E r \in {ExtractOne(fs, earchive.entries[eidx], etmp, eassetType, full)} :
                  IF r.err # Nil
                  THEN /\ fs' = RemoveAll(r.fs, etmp)
                       /\ ExtractFail(ErrExtract(eassetType, r.err))
                       /\ UNCHANGED eidx
                  ELSE /\ fs' = r.fs
                       /\ eidx' = eidx + 1
                       /\ UNCHANGED <<epc, eret, eerr>>
    /\ UNCHANGED <<earchive, eassetType, echecksum, etmp>>

\* the end of the entries: io.EOF of the tar reader or the end of the zip
\* directory, and return tmpDir, nil; or the error of the tar reader on a
\* file cut off
ExtractEnd ==
    /\ epc = "entries"
    /\ Readable(earchive, eassetType)
    /\ eidx > Len(earchive.entries)
    /\ IF earchive.truncated
       THEN /\ fs' = RemoveAll(fs, etmp)
            /\ ExtractFail(ErrExtract(eassetType, ErrReader(eassetType, TRUE)))
       ELSE /\ epc' = "done"
            /\ eret' = etmp
            /\ eerr' = Nil
            /\ UNCHANGED fs
    /\ UNCHANGED <<earchive, eassetType, echecksum, etmp, eidx>>

(***************************************************************************)
(* RootDetector, Installer                                                 *)
(***************************************************************************)

\* the result of a call that returns a path: the file system after it, the
\* path, the error
PathFsResult(f, path, err) == [fs |-> f, path |-> path, err |-> err]

\* a detection that takes the extracted tree itself as the root, whatever
\* it holds
DetectRoot_TreeItself(f, extractDir) == PathResult(extractDir, Nil)

\* extract.DetectRoot(extractDir): the path and the error
DetectRoot(f, extractDir) ==
    LET IsTopDir(name) ==
            /\ f[Join(extractDir, name)].kind = "dir"
            /\ ~HasPrefix(name, <<".">>)
        Root(dirs) ==
            IF Len(dirs) = 1 THEN PathResult(Join(extractDir, dirs[1]), Nil)
            ELSE PathResult(extractDir, Nil)
    IN  IF extractDir \notin DOMAIN f \/ f[extractDir].kind # "dir"
        THEN PathResult(<<>>, Wrapf(<<"f","a","i","l","e","d"," ","t","o"," ",
              "r","e","a","d"," ","e","x","t","r","a","c","t"," ","d","i","r",
              "e","c","t","o","r","y",":"," ">>, ENOENT))
        ELSE Root(SelectSeq(ReadDir(f, extractDir), IsTopDir))

\* platform.Detect().String() on the target of the model, a POSIX one
Platform == <<"l","i","n","u","x","-","a","m","d","6","4">>

\* os.UserHomeDir()
Home == <<"/","h">>

\* platform.NoriRoot()
NoriRoot == Join(Home, <<".","n","o","r","i">>)

\* platform.InstallsDir()
InstallsDir == Join(NoriRoot, <<"i","n","s","t","a","l","l","s">>)

\* platform.ShimsDir()
ShimsDir == Join(NoriRoot, <<"s","h","i","m","s">>)

\* an install path that leaves the version out
InstallPath_NoVersion(pkg, version, platform) ==
    Join(InstallsDir, pkg \o <<"/">> \o platform)

\* platform.InstallPath(pkg, version, platform)
InstallPath(pkg, version, platform) ==
    Join(InstallsDir, pkg \o <<"/">> \o version \o <<"/">> \o platform)

\* The manifest of the package: its name, its binaries, and the platforms
\* of each of its versions.
Manifest ==
    [name |-> <<"p","k">>,
     bins |-> << <<"b","i","n","/","t","o","o","l">>, <<"b","i","n","/","a",
           "u","x">> >>,
     versions |-> (<<"1",".","0",".","0">> :> {Platform})
                  @@ (<<"2",".","0",".","0">> :> {Platform})
                  @@ (<<"3",".","0",".","0">> :> {<<"d","a","r","w","i","n",
                        "-","a","r","m","6","4">>})]

\* manifest.Validate(m), for the fields of m the model has: the name, the
\* binaries, the versions and the platforms of each version
Validate(m) ==
    LET Lower == {"a","b","c","d","e","f","g","h","i","j","k","l","m","n",
                  "o","p","q","r","s","t","u","v","w","x","y","z"}
        Digit == {"0","1","2","3","4","5","6","7","8","9"}
        \* ^[a-z0-9][a-z0-9-_]{1,63}$
        NameMatches(s) ==
            /\ Len(s) \in 2..64
            /\ s[1] \in Lower \cup Digit
            /\ \A i \in 2..Len(s) : s[i] \in Lower \cup Digit \cup {"-", "_"}
        \* ^[0-9]+\.[0-9]+\.[0-9]+$
        VersionMatches(s) ==
            \E i, j \in 2..Len(s) - 1 :
                /\ i + 1 < j
                /\ s[i] = "." /\ s[j] = "."
                /\ \A k \in (1..Len(s)) \ {i, j} : s[k] \in Digit
        \* ^(linux|darwin|windows)-(amd64|arm64)$
        PlatformMatches(s) ==
            \E os \in {<<"l","i","n","u","x">>, <<"d","a","r","w","i",
                  "n">>, <<"w","i","n","d","o","w","s">>},
               arch \in {<<"a","m","d","6","4">>, <<"a","r","m","6",
                     "4">>} : s = os \o <<"-">> \o arch
        BadVersions == {v \in DOMAIN m.versions : ~VersionMatches(v)}
        NoPlatforms == {v \in DOMAIN m.versions : m.versions[v] = {}}
        BadPlatforms == {vp \in {<<v, p>> : v \in DOMAIN m.versions,
                                            p \in UNION {m.versions[w] : w \in DOMAIN m.versions}} :
                            /\ vp[2] \in m.versions[vp[1]]
                            /\ ~PlatformMatches(vp[2])}
        Some(S) == CHOOSE x \in S : TRUE
    IN  IF m.name = <<>>
        THEN << <<"m","i","s","s","i","n","g"," ","r","e","q","u","i","r","e",
              "d"," ","f","i","e","l","d",":"," ","n","a","m","e">> >>
        ELSE IF Len(m.bins) = 0
        THEN << <<"m","i","s","s","i","n","g"," ","r","e","q","u","i","r","e",
              "d"," ","f","i","e","l","d",":"," ","b","i","n","s"," ","(","a",
              "t"," ","l","e","a","s","t"," ","o","n","e"," ","b","i","n","a",
              "r","y"," ","r","e","q","u","i","r","e","d",")">> >>
        ELSE IF DOMAIN m.versions = {}
        THEN << <<"m","i","s","s","i","n","g"," ","r","e","q","u","i","r","e",
              "d"," ","f","i","e","l","d",":"," ","v","e","r","s","i","o","n",
              "s"," ","(","a","t"," ","l","e","a","s","t"," ","o","n","e"," ",
              "v","e","r","s","i","o","n"," ","r","e","q","u","i","r","e","d",
              ")">> >>
        ELSE IF ~NameMatches(m.name)
        THEN << <<"i","n","v","a","l","i","d"," ","p","a","c","k","a","g","e",
              " ","n","a","m","e",":"," ","m","u","s","t"," ","m","a","t","c",
              "h"," ","p","a","t","t","e","r","n"," ","^","[","a","-","z","0",
              "-","9","]","[","a","-","z","0","-","9","-","_","]","{","1",",",
              "6","3","}","$">> >>
        ELSE IF \E i \in 1..Len(m.bins) : m.bins[i] = <<>>
        THEN << <<"e","m","p","t","y"," ","b","i","n","a","r","y"," ","p","a",
              "t","h"," ","a","t"," ","i","n","d","e","x"," ">>
                \o Itoa((CHOOSE i \in 1..Len(m.bins) :
                            /\ m.bins[i] = <<>>
                            /\ \A j \in 1..(i - 1) : m.bins[j] # <<>>) - 1) >>
        ELSE IF BadVersions # {}
        THEN << <<"i","n","v","a","l","i","d"," ","v","e","r","s","i","o","n",
              " ","f","o","r","m","a","t"," ">> \o Quote(Some(BadVersions))
                \o <<":"," ","m","u","s","t"," ","b","e"," ","s","e","m","v",
                      "e","r"," ","(","e",".","g",".",","," ","1",".","2",".",
                      "3",")">> >>
        ELSE IF NoPlatforms # {}
        THEN << <<"v","e","r","s","i","o","n",
              " ">> \o Quote(Some(NoPlatforms)) \o <<" ","h","a","s"," ","n",
              "o"," ","p","l","a","t","f","o","r","m","s">> >>
        ELSE IF BadPlatforms # {}
        THEN << <<"i","n","v","a","l","i","d"," ","p","l","a","t","f","o","r",
              "m"," ">> \o Quote(Some(BadPlatforms)[2])
                \o <<":"," ","m","u","s","t"," ","m","a","t","c","h"," ","p",
                      "a","t","t","e","r","n"," ","(","l","i","n","u","x","|",
                      "d","a","r","w","i","n","|","w","i","n","d","o","w","s",
                      ")","-","(","a","m","d","6","4","|","a","r","m","6","4",
                      ")">> >>
        ELSE Nil

\* manifest.ValidateVersion(m, version, platform)
ValidateVersion(m, version, platform) ==
    IF version \notin DOMAIN m.versions
    THEN << <<"v","e","r","s","i","o","n"," ">> \o Quote(version) \o <<" ",
          "n","o","t"," ","f","o","u","n","d"," ","f","o","r"," ","p","a","c",
          "k","a","g","e"," ">>
            \o Quote(m.name) >>
    ELSE IF platform \notin m.versions[version]
    THEN << <<"p","l","a","t","f","o","r","m",
          " ">> \o Quote(platform) \o <<" ","n","o","t"," ","a","v","a","i",
          "l","a","b","l","e"," ","f","o","r"," ","p","a","c","k","a","g","e",
          " ">>
            \o Quote(m.name) \o <<" ","v","e","r","s","i","o","n",
                  " ">> \o Quote(version) >>
    ELSE Nil

\* the result of a copy: the file system after it, the error, and the files
\* the device still has room for
CopyResult(f, err, room) == [fs |-> f, err |-> err, room |-> room]

\* copyRecursive(src, dst), and its loop over the entries of a directory
\* from the i-th on.  room: the files the device has room for; the copy of
\* a file beyond them leaves the file empty and fails.
RECURSIVE copyRecursive(_, _, _, _)
RECURSIVE copyEntries(_, _, _, _, _, _)
copyEntries(f, src, dst, names, i, room) ==
    LET Next(r) ==
            IF r.err # Nil THEN r
            ELSE copyEntries(r.fs, src, dst, names, i + 1, r.room)
    IN  IF i > Len(names) THEN CopyResult(f, Nil, room)
        ELSE Next(copyRecursive(f, Join(src, names[i]), Join(dst, names[i]), room))

copyRecursive(f, src, dst, room) ==
    LET Into(made) ==
            IF made.err # Nil THEN CopyResult(made.fs, made.err, room)
            ELSE copyEntries(made.fs, src, dst, ReadDir(made.fs, src), 1, room)
        Copied(opened) ==
            IF opened.err # Nil THEN CopyResult(opened.fs, opened.err, room)
            ELSE IF room = 0 THEN CopyResult(opened.fs, ENOSPC, room)
            ELSE CopyResult(opened.fs, Nil, room - 1)
    IN  IF StatError(f, src) # Nil THEN CopyResult(f, StatError(f, src), room)
        ELSE IF f[src].kind = "dir" THEN Into(MkdirAll(f, dst, f[src].mode))
        ELSE Copied(WriteFile(f, dst, f[src].mode,
                              IF room = 0 THEN <<>> ELSE f[src].data))

\* moveContents(src, dst), from the i-th entry of src on: os.Rename, and
\* copyRecursive with os.RemoveAll of the source when the rename fails
RECURSIVE moveEntries(_, _, _, _, _, _, _)
moveEntries(f, src, dst, names, i, xdev, room) ==
    LET Fallback(c) ==
            IF c.err # Nil THEN c
            ELSE moveEntries(RemoveAll(c.fs, Join(src, names[i])), src, dst,
                             names, i + 1, xdev, c.room)
        Renamed(r) ==
            IF r.err = Nil THEN moveEntries(r.fs, src, dst, names, i + 1, xdev, room)
            ELSE Fallback(copyRecursive(f, Join(src, names[i]), Join(dst, names[i]),
                                        room))
    IN  IF i > Len(names) THEN CopyResult(f, Nil, room)
        ELSE Renamed(Rename(f, Join(src, names[i]), Join(dst, names[i]), xdev))

moveContents(f, src, dst, xdev, room) ==
    moveEntries(f, src, dst, ReadDir(f, src), 1, xdev, room)

\* the mode has none of the bits 0111
NoExecBit(mode) ==
    /\ (mode \div 64) % 2 = 0
    /\ (mode \div 8) % 2 = 0
    /\ mode % 2 = 0

\* the loop of Install that sets the executable bits of the binaries from
\* the i-th on: os.Stat, and os.Chmod(binPath, mode|0111) when the mode has
\* none of them
RECURSIVE SetExecutable(_, _, _, _)
SetExecutable(f, installPath, bins, i) ==
    LET Chmod(path) ==
            IF NoExecBit(f[path].mode)
            THEN [f EXCEPT ![path].mode = f[path].mode + 73]
            ELSE f
    IN  IF i > Len(bins) THEN f
        ELSE IF StatError(f, Join(installPath, bins[i])) # Nil
        THEN SetExecutable(f, installPath, bins, i + 1)
        ELSE SetExecutable(Chmod(Resolve(f, Join(installPath, bins[i]))),
                           installPath, bins, i + 1)

\* Installer.Install(ctx, m, version, p, extractDir).  xdev: the extracted
\* tree and the install tree lie on different volumes; room: the files the
\* volume of the install tree has room for.
Install(f, m, version, platform, extractDir, xdev, room) ==
    LET installPath == InstallPath(m.name, version, platform)
        Relocated(moved) ==
            IF moved.err # Nil
            THEN PathFsResult(RemoveAll(moved.fs, installPath), <<>>,
                              Wrapf(<<"f","a","i","l","e","d"," ","t","o"," ",
                                    "m","o","v","e"," ","c","o","n","t","e",
                                    "n","t","s",":"," ">>, moved.err))
            ELSE PathFsResult(SetExecutable(moved.fs, installPath, m.bins, 1),
                              installPath, Nil)
        Created(made, rootDir) ==
            IF made.err # Nil
            THEN PathFsResult(made.fs, <<>>,
                              Wrapf(<<"f","a","i","l","e","d"," ","t","o"," ",
                                    "c","r","e","a","t","e"," ","i","n","s",
                                    "t","a","l","l"," ","d","i","r","e","c",
                                    "t","o","r","y",":"," ">>, made.err))
            ELSE Relocated(moveContents(made.fs, rootDir, installPath, xdev, room))
        Checked(rootDir, missing) ==
            IF missing # {}
            THEN PathFsResult(f, <<>>,
                     << <<"b","i","n",
                           " ">> \o Quote(m.bins[CHOOSE i \in missing :
                                                    \A j \in missing : i <= j])
                        \o <<" ","n","o","t"," ","f","o","u","n","d"," ","i",
                              "n"," ","e","x","t","r","a","c","t","e","d"," ",
                              "a","r","c","h","i","v","e">> >>)
            ELSE Created(MkdirAll(f, installPath, 493), rootDir)
        Rooted(root) ==
            IF root.err # Nil
            THEN PathFsResult(f, <<>>,
                              Wrapf(<<"f","a","i","l","e","d"," ","t","o"," ",
                                    "d","e","t","e","c","t"," ","a","r","c",
                                    "h","i","v","e"," ","r","o","o","t",":",
                                    " ">>, root.err))
            ELSE Checked(root.path,
                         {i \in 1..Len(m.bins) :
                             IsNotExist(StatError(f, Join(root.path, m.bins[i])))})
    IN  IF ValidateVersion(m, version, platform) # Nil
        THEN PathFsResult(f, <<>>, ValidateVersion(m, version, platform))
        ELSE Rooted(DetectRoot(f, extractDir))

(***************************************************************************)
(* ShimManager                                                             *)
(***************************************************************************)

EPERM == << <<"o","p","e","r","a","t","i","o","n"," ","n","o","t"," ","p","e",
      "r","m","i","t","t","e","d">> >>

\* os.Symlink(target, path).  symlinks: the file system has symbolic links.
Symlink(f, target, path, symlinks) ==
    IF ~symlinks THEN FsResult(f, EPERM)
    ELSE IF path \in DOMAIN f THEN FsResult(f, EEXIST)
    ELSE FsResult(f @@ (path :> SymlinkNode(target)), Nil)

\* the wrapper script of createUnixShim
WrapperScript(targetPath) ==
    Bytes(<<"#","!","/","b","i","n","/","s","h","\n","e","x","e","c"," ",
          "\"">> \o targetPath \o <<"\""," ","\"","$","@","\"","\n">>)

\* Shims.CreateShim(binName, targetPath) on a POSIX target: os.MkdirAll of
\* the shims directory, then createUnixShim: the symbolic link, or the
\* wrapper script when the link cannot be made
CreateShim(f, shimsDir, binName, targetPath, symlinks) ==
    LET Linked(link, made) ==
            IF link.err = Nil THEN link
            ELSE WriteFile(made, Join(shimsDir, binName), 493,
                           WrapperScript(targetPath))
        Made(made) ==
            IF made.err # Nil
            THEN FsResult(made.fs,
                     Wrapf(<<"f","a","i","l","e","d"," ","t","o"," ","c","r",
                           "e","a","t","e"," ","s","h","i","m","s"," ","d",
                           "i","r","e","c","t","o","r","y",":",
                           " ">>, made.err))
            ELSE Linked(Symlink(made.fs, targetPath, Join(shimsDir, binName), symlinks),
                        made.fs)
    IN  Made(MkdirAll(f, shimsDir, 493))

\* Shims.UpdateShims(pkg, version, bins, installRoot), from the i-th binary
\* on
RECURSIVE UpdateShims(_, _, _, _, _, _)
UpdateShims(f, shimsDir, bins, installRoot, symlinks, i) ==
    LET Created(r) ==
            IF r.err # Nil
            THEN FsResult(r.fs, Wrapf(<<"f","a","i","l","e","d"," ","t","o",
                  " ","c","r","e","a","t","e"," ","s","h","i","m"," ","f","o",
                  "r"," ">>
                                      \o Quote(Base(bins[i])) \o <<":",
                                            " ">>, r.err))
            ELSE UpdateShims(r.fs, shimsDir, bins, installRoot, symlinks, i + 1)
        Target(targetPath) ==
            IF IsNotExist(StatError(f, targetPath))
            THEN FsResult(f, << <<"t","a","r","g","e","t"," ","b","i","n","a",
                  "r","y"," ">> \o Quote(targetPath)
                                \o <<" ","d","o","e","s"," ","n","o","t"," ",
                                      "e","x","i","s","t">> >>)
            ELSE Created(CreateShim(f, shimsDir, Base(bins[i]), targetPath, symlinks))
    IN  IF i > Len(bins) THEN FsResult(f, Nil)
        ELSE Target(Join(installRoot, bins[i]))

(***************************************************************************)
(* The active-version configuration (package config)                       *)
(***************************************************************************)

\* platform.ConfigDir()
ConfigDir == Join(NoriRoot, <<"c","o","n","f","i","g">>)

\* platform.ActiveConfigPath()
ActiveConfigPath == Join(ConfigDir, <<"a","c","t","i","v","e",".","y","a","m",
      "l">>)

\* os.ReadFile(path): the bytes of the file, or the error
ReadFile(f, path) ==
    IF StatError(f, path) # Nil THEN [data |-> <<>>, err |-> StatError(f, path)]
    ELSE IF f[Resolve(f, path)].kind = "dir" THEN [data |-> <<>>, err |-> EISDIR]
    ELSE [data |-> f[Resolve(f, path)].data, err |-> Nil]

\* the strings that yaml.v3 does not write as plain scalars, among the
\* strings of letters, digits, `-`, `_` and `.`: the empty string, the
\* words it would read back as null or as a boolean, and the numbers
Resolved(s) ==
    LET Digit == {"0","1","2","3","4","5","6","7","8","9"}
    IN  IF s = <<>> \/ s \in {<<"n","u","l","l">>, <<"~">>} THEN "null"
        ELSE IF s \in {<<"t","r","u","e">>, <<"f","a","l","s","e">>, <<"y",
              "e","s">>, <<"n","o">>, <<"o","n">>, <<"o","f","f">>,
                       <<"y">>, <<"n">>} THEN "bool"
        ELSE IF /\ s[1] \in Digit
                /\ \A i \in 1..Len(s) : s[i] \in Digit \cup {"."}
                /\ Cardinality({i \in 1..Len(s) : s[i] = "."}) <= 1
             THEN "number"
        ELSE "str"

\* yaml.Marshal(active) of a map[string]string: one line `key: value` per
\* key, in the order of the keys, each scalar plain where it reads back as
\* a string and double-quoted otherwise; `{}` for the empty map
RECURSIVE Marshal(_)
Marshal(active) ==
    LET Scalar(s) == IF Resolved(s) = "str" THEN s
                     ELSE <<"\"">> \o s \o <<"\"">>
        Line(k) == Scalar(k) \o <<":"," ">> \o Scalar(active[k]) \o <<"\n">>
        Rest(k) == Line(k)
                   \o IF DOMAIN active = {k} THEN <<>>
                      ELSE Marshal([q \in DOMAIN active \ {k} |-> active[q]])
    IN  IF DOMAIN active = {} THEN <<"{","}","\n">>
        ELSE Rest(CHOOSE k \in DOMAIN active :
                     \A q \in DOMAIN active : q = k \/ Less(k, q))

\* the lines of a text
RECURSIVE Lines(_)
Lines(text) ==
    LET Cut(i) == <<SubSeq(text, 1, i - 1)>> \o Lines(SubSeq(text, i + 1, Len(text)))
    IN  IF text = <<>> THEN <<>>
        ELSE IF \A i \in 1..Len(text) : text[i] # "\n" THEN <<text>>
        ELSE Cut(CHOOSE i \in 1..Len(text) :
                    /\ text[i] = "\n"
                    /\ \A j \in 1..(i - 1) : text[j] # "\n")

\* yaml.Unmarshal(data, &active) into a map[string]string, for the block
\* mappings of scalars that Marshal writes: a quoted scalar is its content,
\* a plain one its text, but the empty string where it reads as null
Unmarshal(text) ==
    LET Value(s) ==
            IF Len(s) >= 2 /\ s[1] = "\"" /\ s[Len(s)] = "\""
            THEN SubSeq(s, 2, Len(s) - 1)
            ELSE IF Resolved(s) = "null" THEN <<>> ELSE s
        \* the place of the `: ` that ends the key, 0 when there is none
        Colon(l) ==
            LET Ends == {i \in 1..(Len(l) - 1) :
                            /\ l[i] = ":"
                            /\ l[i + 1] = " "
                            /\ l[1] = "\"" => (i > 2 /\ l[i - 1] = "\"")}
            IN  IF l # <<>> /\ l[Len(l)] = ":" /\ Ends = {} THEN Len(l)
                ELSE IF Ends = {} THEN 0
                ELSE CHOOSE i \in Ends : \A j \in Ends : i <= j
        Key(l) == Value(SubSeq(l, 1, Colon(l) - 1))
        Val(l) == Value(SubSeq(l, Colon(l) + 2, Len(l)))
        Parsed(ls) ==
            IF \E i \in 1..Len(ls) : Colon(ls[i]) = 0
            THEN [active |-> <<>>,
                  err |-> << <<"y","a","m","l",":"," ","u","n","m","a","r",
                        "s","h","a","l"," ","e","r","r","o","r","s",":"," ",
                        "c","a","n","n","o","t"," ","u","n","m","a","r","s",
                        "h","a","l"," ","!","!","s","t","r"," ","i","n","t",
                        "o"," ","c","o","n","f","i","g",".","A","c","t","i",
                        "v","e","C","o","n","f","i","g">> >>]
            ELSE IF \E i, j \in 1..Len(ls) : i < j /\ Key(ls[i]) = Key(ls[j])
            THEN [active |-> <<>>,
                  err |-> << <<"y","a","m","l",":"," ","m","a","p","p","i",
                        "n","g"," ","k","e","y"," ","a","l","r","e","a","d",
                        "y"," ","d","e","f","i","n","e","d">> >>]
            ELSE [active |-> [k \in {Key(ls[i]) : i \in 1..Len(ls)} |->
                                 Val(ls[CHOOSE i \in 1..Len(ls) : Key(ls[i]) = k])],
                  err |-> Nil]
    IN  IF text \in {<<>>, <<"{","}","\n">>, <<"{",
          "}">>} THEN [active |-> <<>>, err |-> Nil]
        ELSE Parsed(Lines(text))

\* the text that a file holds as bytes
Text(data) == [i \in 1..Len(data) |->
                  IF data[i] = 10 THEN "\n" ELSE Ascii[data[i] - 31]]

\* config.loadActive()
loadActive(f) ==
    LET Read(r) ==
            IF r.err # Nil
            THEN IF IsNotExist(r.err) THEN [active |-> <<>>, err |-> Nil]
                 ELSE [active |-> <<>>,
                       err |-> Wrapf(<<"f","a","i","l","e","d"," ","t","o",
                             " ","r","e","a","d"," ","a","c","t","i","v","e",
                             " ","c","o","n","f","i","g",":"," ">>, r.err)]
            ELSE LET Parse(u) ==
                         IF u.err # Nil
                         THEN [active |-> <<>>,
                               err |-> Wrapf(<<"f","a","i","l","e","d"," ",
                                     "t","o"," ","p","a","r","s","e"," ","a",
                                     "c","t","i","v","e"," ","c","o","n","f",
                                     "i","g",":"," ">>, u.err)]
                         ELSE u
                 IN  Parse(Unmarshal(Text(r.data)))
    IN  Read(ReadFile(f, ActiveConfigPath))

\* config.saveActive(active)
saveActive(f, active) ==
    LET Made(made) ==
            IF made.err # Nil
            THEN FsResult(made.fs, Wrapf(<<"f","a","i","l","e","d"," ","t",
                  "o"," ","c","r","e","a","t","e"," ","c","o","n","f","i","g",
                  " ","d","i","r","e","c","t","o","r","y",":",
                  " ">>, made.err))
            ELSE LET Written(w) ==
                         IF w.err # Nil
                         THEN FsResult(w.fs, Wrapf(<<"f","a","i","l","e","d",
                               " ","t","o"," ","w","r","i","t","e"," ","a",
                               "c","t","i","v","e"," ","c","o","n","f","i",
                               "g",":"," ">>, w.err))
                         ELSE w
                 IN  Written(WriteFile(made.fs, ActiveConfigPath, 420,
                                       Bytes(Marshal(active))))
    IN  Made(MkdirAll(f, ConfigDir, 493))

\* a SetActive that starts from the empty map whatever the file holds
SetActive_Fresh(f, pkg, version) == saveActive(f, (pkg :> version))

\* config.SetActive(pkg, version): a map that cannot be loaded is replaced
\* by the empty one
SetActive(f, pkg, version) ==
    LET Loaded(l) ==
            saveActive(f, (pkg :> version) @@ (IF l.err # Nil THEN <<>> ELSE l.active))
    IN  Loaded(loadActive(f))

\* config.GetActive(pkg): the version, "" for a package the map does not
\* have
GetActive(f, pkg) ==
    LET Loaded(l) ==
            IF l.err # Nil THEN [version |-> <<>>, err |-> l.err]
            ELSE [version |-> IF pkg \in DOMAIN l.active THEN l.active[pkg] ELSE <<>>,
                  err |-> Nil]
    IN  Loaded(loadActive(f))

\* config.ListActive()
ListActive(f) == loadActive(f)

(***************************************************************************)
(* The install command from the extracted tree on                          *)
(***************************************************************************)

\* the runs of the install command
MaxRuns == 2

\* the file system before the first run: the home directory of the user
HomeFS == BaseFS @@ (Home :> DirNode(493))

\* The trees that Extract may have made, as the nodes below the extract
\* directory: a package in one top-level directory (pkg; with other content
\* and one more file in old), the same with a hidden file and a hidden
\* directory beside the directory (hidden), a package without a top-level
\* directory, with a file (flat) or a second directory (twoDirs) at the
\* top, one whose files are read-only (readOnly), a package without
\* bin/aux (noAux), one whose bin is a file (binFile), and one with no
\* directory but a hidden one (files).
Tree ==
    LET Pkg(tool, aux, n) ==
            (<<"p","k","g">> :> DirNode(493))
            @@ (<<"p","k","g","/","b","i","n">> :> DirNode(493))
            @@ (<<"p","k","g","/","b","i","n","/","t","o","o",
                  "l">> :> FileNode(tool, <<n>>))
            @@ (<<"p","k","g","/","b","i","n","/","a","u",
                  "x">> :> FileNode(aux, <<n, n>>))
        Bin(tool, n) ==
            (<<"b","i","n">> :> DirNode(493))
            @@ (<<"b","i","n","/","t","o","o","l">> :> FileNode(tool, <<n>>))
            @@ (<<"b","i","n","/","a","u","x">> :> FileNode(493, <<n, n>>))
    IN  [pkg |-> Pkg(420, 448, 1),
         old |-> Pkg(493, 493, 2)
                 @@ (<<"p","k","g","/","b","i","n","/","o","l",
                       "d">> :> FileNode(420, <<2, 2, 2>>)),
         hidden |-> Pkg(420, 448, 1)
                    @@ (<<".","m","e","t","a">> :> FileNode(420, <<3>>))
                    @@ (<<".","g","i","t">> :> DirNode(493)),
         flat |-> Bin(493, 4) @@ (<<"R","E","A","D","M",
               "E">> :> FileNode(420, <<4, 4, 4>>)),
         twoDirs |-> Bin(420, 5)
                     @@ (<<"l","i","b">> :> DirNode(493))
                     @@ (<<"l","i","b","/",
                           "x">> :> FileNode(420, <<5, 5, 5>>)),
         readOnly |-> Pkg(365, 365, 9),
         noAux |-> (<<"p","k","g">> :> DirNode(493))
                   @@ (<<"p","k","g","/","b","i","n">> :> DirNode(493))
                   @@ (<<"p","k","g","/","b","i","n","/","t","o","o",
                         "l">> :> FileNode(493, <<6>>)),
         binFile |-> (<<"p","k","g">> :> DirNode(493))
                     @@ (<<"p","k","g","/","b","i",
                           "n">> :> FileNode(493, <<7>>)),
         files |-> (<<"t","o","o","l">> :> FileNode(493, <<8>>))
                   @@ (<<".","g","i","t">> :> DirNode(493))]

Trees == {Tree[k] : k \in DOMAIN Tree}

\* the file system with the tree in the new directory dir, as Extract
\* leaves it
Extracted(f, dir, tree) ==
    f @@ (dir :> DirNode(448))
      @@ [p \in {Join(dir, q) : q \in DOMAIN tree} |->
             tree[SubSeq(p, Len(dir) + 2, Len(p))]]

\* the versions asked for: two of the manifest for the platform, one of the
\* manifest for another platform, one that the manifest does not have
Versions == { <<"1",".","0",".","0">>, <<"2",".","0",".","0">>, <<"3",".","0",
      ".","0">>, <<"4",".","0",".","0">> }

\* the files the volume of the install tree has room for in each run: none,
\* one, or more than a tree holds
Rooms == {0, 1, 9}

InstallOff ==
    /\ ipc = "off"
    /\ iruns = 0
    /\ crossDevice = FALSE
    /\ hasSymlinks = TRUE
    /\ iversion = <<>>
    /\ itree = <<>>
    /\ iroom = 0
    /\ iextractDir = <<>>
    /\ iroot = <<>>
    /\ ipath = <<>>
    /\ ierr = Nil
    /\ serr = Nil
    /\ ifs0 = <<>>
    /\ ifs1 = <<>>
    /\ ilog = <<>>

\* no run yet; the volumes, their room and the file system are as the
\* machine has them
InstallInit ==
    /\ fs = HomeFS
    /\ ipc = "idle"
    /\ iruns = 0
    /\ crossDevice \in BOOLEAN
    /\ hasSymlinks \in BOOLEAN
    /\ iversion = <<>>
    /\ itree = <<>>
    /\ iroom \in Rooms
    /\ iextractDir = <<>>
    /\ iroot = <<>>
    /\ ipath = <<>>
    /\ ierr = Nil
    /\ serr = Nil
    /\ ifs0 = <<>>
    /\ ifs1 = <<>>
    /\ ilog = <<>>

\* the locals of a run that is over
InstallLocalsReset ==
    /\ iversion' = <<>>
    /\ itree' = <<>>
    /\ iextractDir' = <<>>
    /\ iroot' = <<>>
    /\ ipath' = <<>>
    /\ ierr' = Nil
    /\ serr' = Nil
    /\ ifs0' = <<>>
    /\ ifs1' = <<>>

\* InstallCommand for a version that manifest.ValidateVersion refuses: it
\* returns the error before anything is fetched
CommandRejected ==
    /\ ipc = "idle"
    /\ iruns < MaxRuns
    /\ \E version \in Versions :
         ValidateVersion(Manifest, version, Platform) # Nil
    /\ iruns' = iruns + 1
    /\ UNCHANGED <<fs, ipc, crossDevice, hasSymlinks, iversion, itree, iroom,
                   iextractDir, iroot, ipath, ierr, serr, ifs0, ifs1, ilog>>

\* the name os.MkdirTemp makes: one the file system does not have, here the
\* first of them
FirstOf(names) == CHOOSE d \in names : \A e \in names : d = e \/ Less(d, e)

\* InstallCommand up to the return of the extractor: the version asked for
\* and the extracted tree in its new temporary directory
InstallStartFrom(trees) ==
    /\ ipc = "idle"
    /\ iruns < MaxRuns
    /\ \E version \in Versions, dir \in {FirstOf(TempNames \ DOMAIN fs)},
          tree \in trees :
         /\ ValidateVersion(Manifest, version, Platform) = Nil
         /\ iversion' = version
         /\ itree' = tree
         /\ iextractDir' = dir
         /\ fs' = Extracted(fs, dir, tree)
    /\ ipc' = "install"
    /\ UNCHANGED <<iruns, crossDevice, hasSymlinks, iroom, iroot, ipath, ierr, serr,
                   ifs0, ifs1, ilog>>

InstallStart == InstallStartFrom(Trees)

\* an install command that calls the ShimManager whatever the Installer
\* returned
InstallCall_AlwaysShims ==
    /\ ipc = "install"
    /\ \E r \in {Install(fs, Manifest, iversion, Platform, iextractDir,
                       crossDevice, iroom)} :
         /\ fs' = r.fs
         /\ ifs1' = r.fs
         /\ ipath' = r.path
         /\ ierr' = r.err
         /\ ipc' = "shims"
    /\ ifs0' = fs
    /\ iroot' = DetectRoot(fs, iextractDir).path
    /\ UNCHANGED <<iruns, crossDevice, hasSymlinks, iversion, itree, iroom,
                   iextractDir, serr, ilog>>

\* installer.Install(ctx, m, version, p, extractDir)
InstallCall ==
    /\ ipc = "install"
    /\ \E r \in {Install(fs, Manifest, iversion, Platform, iextractDir,
                       crossDevice, iroom)} :
         /\ fs' = r.fs
         /\ ifs1' = r.fs
         /\ ipath' = r.path
         /\ ierr' = r.err
         /\ ipc' = IF r.err = Nil THEN "shims" ELSE "return"
    /\ ifs0' = fs
    /\ iroot' = DetectRoot(fs, iextractDir).path
    /\ UNCHANGED <<iruns, crossDevice, hasSymlinks, iversion, itree, iroom,
                   iextractDir, serr, ilog>>

\* shim.UpdateShims(pkgName, version, m.Bins, installPath)
ShimsCall ==
    /\ ipc = "shims"
    /\ \E r \in {UpdateShims(fs, ShimsDir, Manifest.bins, ipath, hasSymlinks, 1)} :
         /\ fs' = r.fs
         /\ serr' = r.err
    /\ ipc' = "return"
    /\ UNCHANGED <<iruns, crossDevice, hasSymlinks, iversion, itree, iroom,
                   iextractDir, iroot, ipath, ierr, ifs0, ifs1, ilog>>

\* the return of InstallCommand: the deferred os.RemoveAll(extractDir)
InstallReturn ==
    /\ ipc = "return"
    /\ fs' = RemoveAll(fs, iextractDir)
    /\ ilog' = IF ierr # Nil
               THEN [v \in DOMAIN ilog \ {iversion} |-> ilog[v]]
               ELSE (iversion :> [tree |-> itree,
                                  after |-> [p \in {q \in DOMAIN ifs1 :
                                                       IsUnder(q, ipath)}
                                               |-> ifs1[p]]]) @@ ilog
    /\ iruns' = iruns + 1
    /\ ipc' = "idle"
    /\ InstallLocalsReset
    /\ UNCHANGED <<crossDevice, hasSymlinks, iroom>>

(***************************************************************************)
(* Calls of the config package                                             *)
(***************************************************************************)

\* the packages and the versions of the calls
ConfigPackages == {<<"p","k">>, <<"n","o">>, <<"1","2">>}

ConfigVersions == {<<"1",".","0",".","0">>, <<"2",".","0",".","0">>, <<>>}

ConfigOff ==
    /\ cres = [op |-> "none"]
    /\ cset = <<>>

UseOff ==
    /\ ucmd = [op |-> "none"]
    /\ cmdFailed = FALSE
    /\ icancel = "no"

ProfileOff ==
    /\ shell = <<>>
    /\ initc = [op |-> "none"]

LateOff ==
    /\ ProfileOff /\ prog = [pc |-> "off"] /\ reg = [op |-> "off"]
    /\ req = [pc |-> "off"]

CommandsOff == ConfigOff /\ UseOff /\ pipes = <<>> /\ LateOff

\* a home without a configuration
ConfigInit ==
    /\ fs = HomeFS
    /\ cres = [op |-> "none"]
    /\ cset = <<>>

\* SetActive(pkg, version)
SetActiveCall ==
    /\ \E pkg \in ConfigPackages, version \in ConfigVersions :
         \E r \in {SetActive(fs, pkg, version)} :
            /\ fs' = r.fs
            /\ cres' = [op |-> "SetActive", pkg |-> pkg, version |-> version,
                        err |-> r.err]
            /\ cset' = IF r.err = Nil THEN (pkg :> version) @@ cset ELSE cset

\* GetActive(pkg)
GetActiveCall ==
    /\ \E pkg \in ConfigPackages :
         \E r \in {GetActive(fs, pkg)} :
            cres' = [op |-> "GetActive", pkg |-> pkg, version |-> r.version,
                     err |-> r.err]
    /\ UNCHANGED <<fs, cset>>

\* ListActive()
ListActiveCall ==
    /\ \E r \in {ListActive(fs)} :
         cres' = [op |-> "ListActive", active |-> r.active, err |-> r.err]
    /\ UNCHANGED <<fs, cset>>

(***************************************************************************)
(* The use and which commands; the context of the install command          *)
(***************************************************************************)

\* UseCommand without the test for the install directory
Use_NoInstallCheck(f, m, version, platform, symlinks) ==
    LET installPath == InstallPath(m.name, version, platform)
        Set(r) ==
            IF r.err # Nil
            THEN FsResult(r.fs, Wrapf(<<"f","a","i","l","e","d"," ","t","o",
                  " ","s","e","t"," ","a","c","t","i","v","e"," ","v","e","r",
                  "s","i","o","n",":"," ">>, r.err))
            ELSE UpdateShims(r.fs, ShimsDir, m.bins, installPath, symlinks, 1)
    IN  IF ValidateVersion(m, version, platform) # Nil
        THEN FsResult(f, << <<"v","e","r","s","i","o","n"," ","d","o","e","s",
              " ","n","o","t"," ","e","x","i","s","t">> >>)
        ELSE Set(SetActive(f, m.name, version))

\* UseCommand for <m.name>@<version>, after the manifest is loaded
Use(f, m, version, platform, symlinks) ==
    LET installPath == InstallPath(m.name, version, platform)
        Updated(u) ==
            IF u.err # Nil
            THEN FsResult(u.fs, Wrapf(<<"f","a","i","l","e","d"," ","t","o",
                  " ","u","p","d","a","t","e"," ","s","h","i","m","s",":",
                  " ">>, u.err))
            ELSE u
        Set(r) ==
            IF r.err # Nil
            THEN FsResult(r.fs, Wrapf(<<"f","a","i","l","e","d"," ","t","o",
                  " ","s","e","t"," ","a","c","t","i","v","e"," ","v","e","r",
                  "s","i","o","n",":"," ">>, r.err))
            ELSE Updated(UpdateShims(r.fs, ShimsDir, m.bins, installPath, symlinks, 1))
    IN  IF ValidateVersion(m, version, platform) # Nil
        THEN FsResult(f, << <<"v","e","r","s","i","o","n",
              " ">> \o Quote(version)
                            \o <<" ","d","o","e","s"," ","n","o","t"," ","e",
                                  "x","i","s","t"," ","f","o","r"," ","p","a",
                                  "c","k","a","g","e"," ">> \o Quote(m.name)
                            \o <<" ","o","n"," ","p","l","a","t","f","o","r",
                                  "m"," ">> \o Quote(platform) >>)
        ELSE IF IsNotExist(StatError(f, installPath))
        THEN FsResult(f, << <<"p","a","c","k","a","g","e",
              " ">> \o m.name \o <<"@">> \o version
                            \o <<" ","i","s"," ","n","o","t"," ","i","n","s",
                                  "t","a","l","l","e","d">> >>)
        ELSE Set(SetActive(f, m.name, version))

\* WhichCommand for binName, with m the one package of the registry
Which(f, m, binName, platform) ==
    LET Provides == {i \in 1..Len(m.bins) : Base(m.bins[i]) = binName}
        First == CHOOSE i \in Provides : \A j \in Provides : i <= j
        Active(a) ==
            IF a.err # Nil \/ a.version = <<>>
            THEN PathResult(<<>>, << <<"p","a","c","k","a","g","e",
                  " ">> \o m.name
                                     \o <<" ","h","a","s"," ","n","o"," ","a",
                                           "c","t","i","v","e"," ","v","e",
                                           "r","s","i","o","n">> >>)
            ELSE PathResult(Join(InstallPath(m.name, a.version, platform),
                                 m.bins[First]), Nil)
    IN  IF Provides = {}
        THEN PathResult(<<>>, << <<"b","i","n","a","r","y",
              " ">> \o Quote(binName)
                                 \o <<" ","n","o","t"," ","f","o","u","n","d",
                                       " ","i","n"," ","a","n","y"," ","p",
                                       "a","c","k","a","g","e">> >>)
        ELSE Active(GetActive(f, m.name))

\* the trees of the runs of the install command beside use commands
UseTrees == {Tree.pkg, Tree.binFile}

\* the binary names asked of the which command
WhichNames == {<<"t","o","o","l">>, <<"a","u","x">>, <<"n","o","n","e">>}

\* the commands start on a machine with one volume and room
CommandsInit ==
    /\ InstallInit
    /\ crossDevice = FALSE
    /\ iroom = 9
    /\ ucmd = [op |-> "none"]
    /\ cmdFailed = FALSE
    /\ icancel = "no"

\* one run of UseCommand
UseCommand ==
    /\ ipc = "idle"
    /\ iruns < MaxRuns
    /\ \E version \in Versions :
         \E r \in {Use(fs, Manifest, version, Platform, hasSymlinks)} :
            /\ fs' = r.fs
            /\ ucmd' = [op |-> "use", version |-> version, err |-> r.err]
            /\ cmdFailed' = (cmdFailed \/ r.err # Nil)
    /\ iruns' = iruns + 1
    /\ UNCHANGED <<ipc, crossDevice, hasSymlinks, iversion, itree, iroom,
                   iextractDir, iroot, ipath, ierr, serr, ifs0, ifs1, ilog,
                   icancel>>

\* one run of WhichCommand
WhichCommand ==
    /\ ipc = "idle"
    /\ \E binName \in WhichNames :
         \E r \in {Which(fs, Manifest, binName, Platform)} :
            ucmd' = [op |-> "which", bin |-> binName, path |-> r.path,
                     err |-> r.err]
    /\ UNCHANGED <<fs, installVars, cmdFailed, icancel>>

\* the context of the running install command is cancelled (an interrupt)
\* after the extractor has returned: before Install, or before UpdateShims
ContextCancelled ==
    /\ ipc \in {"install", "shims"}
    /\ icancel = "no"
    /\ icancel' = ipc
    /\ UNCHANGED <<fs, installVars, ucmd, cmdFailed>>

(***************************************************************************)
(* Two install commands at the same time, for two package keys             *)
(***************************************************************************)

\* the versions of the two commands: two keys of the package
PipeVersions == <<<<"1",".","0",".","0">>, <<"2",".","0",".","0">>>>

\* the trees that their archives hold
PipeTrees == {Tree.pkg, Tree.old, Tree.noAux}

\* the two commands are about to call the extractor
PipesInit ==
    /\ fs = HomeFS
    /\ ipc = "off"
    /\ iruns = 0
    /\ crossDevice \in BOOLEAN
    /\ hasSymlinks \in BOOLEAN
    /\ iversion = <<>>
    /\ itree = <<>>
    /\ iroom = 9
    /\ iextractDir = <<>>
    /\ iroot = <<>>
    /\ ipath = <<>>
    /\ ierr = Nil
    /\ serr = Nil
    /\ ifs0 = <<>>
    /\ ifs1 = <<>>
    /\ ilog = <<>>
    /\ pipes = [i \in 1..2 |->
                  [pc |-> "start", version |-> PipeVersions[i], tree |-> <<>>,
                   extractDir |-> <<>>, path |-> <<>>, err |-> Nil,
                   serr |-> Nil]]

\* InstallCommand of command i up to the return of the extractor
PipeStart(i) ==
    /\ pipes[i].pc = "start"
    /\ \E dir \in {FirstOf(TempNames \ DOMAIN fs)}, tree \in PipeTrees :
         /\ fs' = Extracted(fs, dir, tree)
         /\ pipes' = [pipes EXCEPT ![i].pc = "install", ![i].tree = tree,
                                   ![i].extractDir = dir]

\* installer.Install of command i
PipeInstall(i) ==
    /\ pipes[i].pc = "install"
    /\ \E r \in {Install(fs, Manifest, pipes[i].version, Platform,
                       pipes[i].extractDir, crossDevice, iroom)} :
         /\ fs' = r.fs
         /\ pipes' = [pipes EXCEPT ![i].pc = IF r.err = Nil THEN "shims"
                                             ELSE "return",
                                   ![i].path = r.path, ![i].err = r.err]

\* shim.UpdateShims of command i
PipeShims(i) ==
    /\ pipes[i].pc = "shims"
    /\ \E r \in {UpdateShims(fs, ShimsDir, Manifest.bins, pipes[i].path,
                           hasSymlinks, 1)} :
         /\ fs' = r.fs
         /\ pipes' = [pipes EXCEPT ![i].pc = "return", ![i].serr = r.err]

\* the return of command i: the deferred os.RemoveAll(extractDir)
PipeReturn(i) ==
    /\ pipes[i].pc = "return"
    /\ fs' = RemoveAll(fs, pipes[i].extractDir)
    /\ pipes' = [pipes EXCEPT ![i].pc = "done"]

(***************************************************************************)
(* The init command and the shell profile                                  *)
(***************************************************************************)

\* the values of $SHELL
ShellEnvs == {<<>>, <<"/","b","i","n","/","s","h">>, <<"/","b","i","n","/",
      "b","a","s","h">>, <<"/","b","i","n","/","z","s","h">>, <<"/","u","s",
      "r","/","b","i","n","/","f","i","s","h">>}

\* detectShell() on a system that is not Windows
detectShell(env) ==
    IF env = <<>> THEN <<"b","a","s","h">>
    ELSE IF Contains(env, <<"z","s","h">>) THEN <<"z","s","h">>
    ELSE IF Contains(env, <<"f","i","s","h">>) THEN <<"f","i","s","h">>
    ELSE <<"b","a","s","h">>

\* the profile that InitCommand chooses for the shell
ProfilePath(sh) ==
    IF sh = <<"z","s","h">> THEN Join(Home, <<".","z","s","h","r","c">>)
    ELSE IF sh = <<"b","a","s","h">> THEN Join(Home, <<".","b","a","s","h",
          "r","c">>)
    ELSE Join(Join(Join(Home, <<".","c","o","n","f","i","g">>), <<"f","i","s",
          "h">>), <<"c","o","n","f","i","g",".","f","i","s","h">>)

\* the line that InitCommand chooses for the shell
PathLine(sh) ==
    IF sh = <<"f","i","s","h">> THEN <<"s","e","t"," ","-","g","x"," ","P",
          "A","T","H"," ","$","H","O","M","E","/",".","n","o","r","i","/","s",
          "h","i","m","s"," ","$","P","A","T","H">>
    ELSE <<"e","x","p","o","r","t"," ","P","A","T","H","=","\"","$","H","O",
          "M","E","/",".","n","o","r","i","/","s","h","i","m","s",":","$","P",
          "A","T","H","\"">>

\* strings.HasSuffix(s, suffix)
HasSuffix(s, suffix) ==
    /\ Len(s) >= Len(suffix)
    /\ SubSeq(s, Len(s) - Len(suffix) + 1, Len(s)) = suffix

\* addToProfile(profilePath, line)
addToProfile(f, profilePath, line) ==
    LET Written(w) == [fs |-> w.fs, added |-> w.err = Nil, err |-> w.err]
        Made(content, made) ==
            IF made.err # Nil
            THEN [fs |-> made.fs, added |-> FALSE, err |-> made.err]
            ELSE Written(WriteFile(made.fs, profilePath, 420,
                    Bytes(IF Len(content) > 0 /\ ~HasSuffix(content, <<"\n">>)
                          THEN content \o <<"\n">> \o line \o <<"\n">>
                          ELSE content \o line \o <<"\n">>)))
        Check(content) ==
            IF Contains(content, line) \/ Contains(content, <<".","n","o","r",
                  "i","/","s","h","i","m","s">>)
            THEN [fs |-> f, added |-> FALSE, err |-> Nil]
            ELSE Made(content, MkdirAll(f, Dir(profilePath), 493))
        Read(r) ==
            IF r.err # Nil /\ ~IsNotExist(r.err)
            THEN [fs |-> f, added |-> FALSE, err |-> r.err]
            ELSE Check(Text(r.data))
    IN  Read(ReadFile(f, profilePath))

\* InitCommand with $SHELL = env: the shims directory, then the profile
InitCommand(f, env) ==
    LET Added(sh, a) ==
            IF a.err # Nil
            THEN [fs |-> a.fs, added |-> FALSE,
                  err |-> Wrapf(<<"f","a","i","l","e","d"," ","t","o"," ","u",
                        "p","d","a","t","e"," ">> \o sh \o <<" ","p","r","o",
                        "f","i","l","e",":"," ">>, a.err)]
            ELSE a
        Made(sh, made) ==
            IF made.err # Nil
            THEN [fs |-> made.fs, added |-> FALSE,
                  err |-> Wrapf(<<"f","a","i","l","e","d"," ","t","o"," ","c",
                        "r","e","a","t","e"," ","s","h","i","m","s"," ","d",
                        "i","r","e","c","t","o","r","y",":"," ">>, made.err)]
            ELSE Added(sh, addToProfile(made.fs, ProfilePath(sh), PathLine(sh)))
    IN  Made(detectShell(env), MkdirAll(f, ShimsDir, 493))

\* the most lines of a profile before the first run
MaxProfileLines == 2

\* the lines of the profiles before the first run: another setting, a
\* comment that names the directory, and the line of the shell
ProfileLines(sh) == {<<"a","l","i","a","s"," ","l","=","l","s">>, <<"#"," ",
      "w","a","s",":"," ","~","/",".","n","o","r","i","/","s","h","i","m",
      "s">>, PathLine(sh)}

\* the profiles before the first run: the text of up to MaxProfileLines
\* lines, the last one with or without its newline
Profiles(sh) ==
    LET RECURSIVE Cat(_)
        Cat(ls) == IF ls = <<>> THEN <<>> ELSE Head(ls) \o <<"\n">> \o Cat(Tail(ls))
        Seqs == UNION {[1..n -> ProfileLines(sh)] : n \in 0..MaxProfileLines}
    IN  {Cat(ls) : ls \in Seqs}
        \cup {SubSeq(Cat(ls), 1, Len(Cat(ls)) - 1) : ls \in Seqs \ {<<>>}}

\* a home with or without the profile of the shell
ProfileInit ==
    /\ shell \in ShellEnvs
    /\ initc = [op |-> "none"]
    /\ \E present \in BOOLEAN :
          IF present
          THEN \E text \in Profiles(detectShell(shell)) :
                 fs = MkdirAll(HomeFS, Dir(ProfilePath(detectShell(shell))), 493).fs
                      @@ (ProfilePath(detectShell(shell)) :> FileNode(420, Bytes(text)))
          ELSE fs = HomeFS

\* one run of the init command
InitCall ==
    /\ \E r \in {InitCommand(fs, shell)} :
          /\ fs' = r.fs
          /\ initc' = [op |-> "init", added |-> r.added, err |-> r.err,
                       runs |-> IF initc.op = "none" THEN 1 ELSE 2]
    /\ UNCHANGED shell

(***************************************************************************)
(* FetchWithProgress with a progress sink, beside the call without one     *)
(***************************************************************************)

\* a sink whose Write fails
Write_Failing(p, b) ==
    [bar |-> p, n |-> 0, err |-> << <<"s","h","o","r","t"," ","w","r","i","t",
          "e">> >>]

\* ProgressBar.Write(b): the bytes are counted, never refused (render
\* prints the bar)
Write(p, b) ==
    [bar |-> [p EXCEPT !.current = @ + Len(b)], n |-> Len(b), err |-> Nil]

\* the answers of the server to one request: a status that is not 2xx, or
\* a 200 whose body arrives in chunks and ends well (final = Nil, io.EOF) or
\* with an error of the connection
Answers ==
    {[kind |-> "status", resp |-> r, chunks |-> <<>>, final |-> Nil] :
        r \in {x \in Responses : x.code \in {404, 503}}}
    \cup {[kind |-> "body", resp |-> CHOOSE x \in Responses : x.code = 200,
           chunks |-> c, final |-> e] :
            c \in {<<>>, << <<104>> >>, << <<104>>, <<105>> >>},
            e \in {Nil} \cup BodyFailures}

\* the call starts: attempt := 0, nothing read
ProgressRun ==
    [pc |-> "request", attempt |-> 0, rest |-> <<>>, data |-> <<>>,
     lastErr |-> Nil, ret |-> <<>>, err |-> Nil,
     bar |-> [total |-> 0, current |-> 0], read |-> <<>>, sunk |-> <<>>]

\* one step of FetchWithProgress(ctx, url, expected, progressWriter) with a
\* context that is never done: the request of an attempt, or one Read of
\* io.ReadAll from the body (through io.TeeReader when sink is not nil),
\* then the retry decision and the verification
ProgressStep(run, script, expected, sink) ==
    LET Return(data, err) ==
            [run EXCEPT !.pc = "done", !.ret = data, !.err = err]
        Failed(r, err) ==
            IF ~isRetryableError(err)
            THEN [r EXCEPT !.pc = "done", !.lastErr = err, !.ret = <<>>,
                           !.err = err]
            ELSE IF r.attempt + 1 < maxRetries
            THEN [r EXCEPT !.pc = "request", !.lastErr = err,
                           !.attempt = @ + 1]
            ELSE [r EXCEPT !.pc = "done", !.lastErr = err, !.attempt = @ + 1,
                           !.ret = <<>>, !.err = ErrExhausted(maxRetries, err)]
        Verified(err) ==
            IF err # Nil THEN Return(<<>>, ErrVerificationFailed(err))
            ELSE Return(<<run.data>>, Nil)
        Tee(r, chunk, w) ==
            IF w.err # Nil THEN Failed([r EXCEPT !.bar = w.bar], w.err)
            ELSE [r EXCEPT !.bar = w.bar, !.sunk = Append(@, chunk),
                           !.data = @ \o chunk, !.rest = Tail(@)]
        Read(chunk) ==
            IF sink = "nil"
            THEN [run EXCEPT !.read = Append(@, chunk), !.data = @ \o chunk,
                             !.rest = Tail(@)]
            ELSE Tee([run EXCEPT !.read = Append(@, chunk)], chunk,
                     Write(run.bar, chunk))
        Answer(a) ==
            IF run.pc = "request"
            THEN IF a.kind = "status" THEN Failed(run, StatusError(a.resp))
                 ELSE IF a.kind = "transport" THEN Failed(run, a.final)
                 ELSE [run EXCEPT !.pc = "read", !.rest = a.chunks,
                                  !.data = <<>>]
            ELSE IF run.rest # <<>> THEN Read(Head(run.rest))
            ELSE IF a.final # Nil THEN Failed(run, a.final)
            ELSE Verified(VerifyChecksum(run.data, expected))
    IN  IF run.pc = "done" THEN run ELSE Answer(script[run.attempt + 1])

\* two calls for the same url: for each attempt the server answers both
\* the same way
ProgressInit ==
    /\ \E script \in [1..maxRetries -> Answers] :
          prog = [pc |-> "run", script |-> script,
                  expected |-> ChecksumOf(<<104, 105>>),
                  with |-> ProgressRun, without |-> ProgressRun]

\* each of the two calls takes its next step
ProgressNext ==
    /\ prog.pc = "run"
    /\ prog.with.pc # "done" \/ prog.without.pc # "done"
    /\ prog' = [prog EXCEPT
                  !.with = ProgressStep(@, prog.script, prog.expected, "bar"),
                  !.without = ProgressStep(@, prog.script, prog.expected, "nil")]

(***************************************************************************)
(* The registry client: manifests, LoadPackage, Search                     *)
(***************************************************************************)

\* strings.TrimSuffix(s, suffix)
TrimSuffix(s, suffix) ==
    IF HasSuffix(s, suffix) THEN SubSeq(s, 1, Len(s) - Len(suffix)) ELSE s

\* platform.RegistryDir()
RegistryDir == Join(NoriRoot, <<"r","e","g","i","s","t","r","y">>)

\* platform.PackageManifestPath(pkg)
PackageManifestPath(pkg) ==
    Join(Join(RegistryDir, <<"p","a","c","k","a","g","e","s">>), pkg \o <<".",
          "y","a","m","l">>)

\* platform.IndexPath()
IndexPath == Join(RegistryDir, <<"i","n","d","e","x",".","y","a","m","l">>)

\* r.BaseURL, from NORI_REGISTRY_URL
BaseURL == <<"h","t","t","p","s",":","/","/","r","/">>

\* strings.ToLower(s) of an ASCII string
ToLower(s) ==
    LET Upper == <<"A","B","C","D","E","F","G","H","I","J","K","L","M","N",
          "O","P","Q","R","S","T","U","V","W","X","Y","Z">>
        Lower == <<"a","b","c","d","e","f","g","h","i","j","k","l","m","n",
              "o","p","q","r","s","t","u","v","w","x","y","z">>
        Char(c) == IF \E k \in 1..Len(Upper) : Upper[k] = c
                   THEN Lower[CHOOSE k \in 1..Len(Upper) : Upper[k] = c]
                   ELSE c
    IN  [i \in 1..Len(s) |-> Char(s[i])]

\* one line of a block-style YAML document, as yaml.v3 reads it: its
\* indentation, whether it starts an item of a list, its key (colon = 0
\* for a line without one) and its scalar, quotes removed
YamlLine(l) ==
    LET Unquote(s) ==
            IF Len(s) >= 2 /\ s[1] = "\"" /\ s[Len(s)] = "\""
            THEN SubSeq(s, 2, Len(s) - 1) ELSE s
        Cut(indent, item, body, colon) ==
            [indent |-> indent, item |-> item, colon |-> colon,
             blank |-> body = <<>> \/ body[1] = "#",
             key |-> Unquote(SubSeq(body, 1, colon - 1)),
             value |-> Unquote(SubSeq(body, IF colon = 0 THEN 1 ELSE colon + 2,
                                      Len(body)))]
        Keyed(indent, item, body, ends) ==
            Cut(indent, item, body,
                IF ends = {} THEN 0
                ELSE CHOOSE i \in ends : \A j \in ends : i <= j)
        Body(indent, item, body) ==
            Keyed(indent, item, body,
                  {i \in 1..Len(body) :
                      /\ body[i] = ":"
                      /\ i = Len(body) \/ body[i + 1] = " "})
        Item(indent, rest) ==
            IF HasPrefix(rest, <<"-"," ">>)
            THEN Body(indent, TRUE, SubSeq(rest, 3, Len(rest)))
            ELSE Body(indent, FALSE, rest)
        Indented(n) == Item(n, SubSeq(l, n + 1, Len(l)))
    IN  Indented(CHOOSE n \in 0..Len(l) :
                    /\ \A i \in 1..n : l[i] = " "
                    /\ n = Len(l) \/ l[n + 1] # " ")

\* the error of yaml.v3 for a node that does not fit the Go type
ErrUnmarshal(what) ==
    << <<"y","a","m","l",":"," ","u","n","m","a","r","s","h","a","l"," ","e",
          "r","r","o","r","s",":"," ","c","a","n","n","o","t"," ","u","n","m",
          "a","r","s","h","a","l"," ">> \o what >>

\* manifest.LoadFromBytes(data): yaml.Unmarshal into a Manifest, for block
\* documents of the layout of the registry (schema, name, bins, versions
\* with platforms and their assets); keys the Manifest does not have are
\* skipped
LoadFromBytes(data) ==
    LET Digits == <<"0","1","2","3","4","5","6","7","8","9">>
        RECURSIVE Atoi(_)
        Atoi(s) == IF s = <<>> THEN 0
                   ELSE 10 * Atoi(SubSeq(s, 1, Len(s) - 1))
                        + (CHOOSE d \in 1..Len(Digits) : Digits[d] = s[Len(s)]) - 1
        IsInt(s) == s # <<>> /\ \A i \in 1..Len(s) : \E d \in 1..Len(Digits) : Digits[d] = s[i]
        Asset == [type |-> <<>>, url |-> <<>>, checksum |-> <<>>]
        Field(a, y) ==
            IF y.key = <<"t","y","p","e">> THEN [a EXCEPT !.type = y.value]
            ELSE IF y.key = <<"u","r","l">> THEN [a EXCEPT !.url = y.value]
            ELSE IF y.key = <<"c","h","e","c","k","s","u",
                  "m">> THEN [a EXCEPT !.checksum = y.value]
            ELSE a
        Top(st, y) ==
            IF y.item \/ y.colon = 0
            THEN [st EXCEPT !.err = Wrapf(<<"f","a","i","l","e","d"," ","t",
                  "o"," ","p","a","r","s","e"," ","Y","A","M","L",":"," ">>,
                                    ErrUnmarshal(<<"!","!","s","t","r"," ",
                                          "i","n","t","o"," ","m","a","n","i",
                                          "f","e","s","t",".","M","a","n","i",
                                          "f","e","s","t">>))]
            ELSE IF y.key = <<"s","c","h","e","m","a">>
            THEN IF IsInt(y.value)
                 THEN [st EXCEPT !.top = y.key, !.m.schema = Atoi(y.value)]
                 ELSE [st EXCEPT !.err = Wrapf(<<"f","a","i","l","e","d"," ",
                       "t","o"," ","p","a","r","s","e"," ","Y","A","M","L",
                       ":"," ">>,
                                         ErrUnmarshal(<<"!","!","s","t","r",
                                               " ","i","n","t","o"," ","i",
                                               "n","t">>))]
            ELSE IF y.key = <<"n","a","m","e">>
            THEN [st EXCEPT !.top = y.key, !.m.name = y.value]
            ELSE [st EXCEPT !.top = y.key]
        Below(st, y) ==
            IF st.top = <<"b","i","n","s">> /\ y.item /\ y.colon = 0
            THEN [st EXCEPT !.m.bins = Append(@, y.value)]
            ELSE IF st.top # <<"v","e","r","s","i","o","n",
                  "s">> \/ y.colon = 0 THEN st
            ELSE IF y.indent = 2
            THEN [st EXCEPT !.ver = y.key,
                            !.m.versions = (y.key :> <<>>) @@ @]
            ELSE IF y.indent = 6 /\ st.ver \in DOMAIN st.m.versions
            THEN [st EXCEPT !.plat = y.key,
                            !.m.versions[st.ver] = (y.key :> Asset) @@ @]
            ELSE IF /\ y.indent = 8
                    /\ st.ver \in DOMAIN st.m.versions
                    /\ st.plat \in DOMAIN st.m.versions[st.ver]
            THEN [st EXCEPT !.m.versions[st.ver][st.plat] = Field(@, y)]
            ELSE st
        Line(st, y) ==
            IF y.blank THEN st
            ELSE IF y.indent = 0 THEN Top(st, y)
            ELSE Below(st, y)
        RECURSIVE Load(_, _)
        Load(st, ls) ==
            IF ls = <<>> \/ st.err # Nil THEN [m |-> st.m, err |-> st.err]
            ELSE Load(Line(st, YamlLine(Head(ls))), Tail(ls))
    IN  Load([m |-> [schema |-> 0, name |-> <<>>, bins |-> <<>>,
                     versions |-> <<>>],
              top |-> <<>>, ver |-> <<>>, plat |-> <<>>, err |-> Nil],
             Lines(Text(data)))

\* u.Scheme of url.Parse(rawURL): the letters, digits, `+`, `-` and `.`
\* before the first other character when that is a colon, in lower case
Scheme(rawURL) ==
    LET Letters == <<"a","b","c","d","e","f","g","h","i","j","k","l","m","n",
          "o","p","q","r","s","t","u","v","w","x","y","z">>
        Others == <<"0","1","2","3","4","5","6","7","8","9","+","-",".">>
        In(c, set) == \E k \in 1..Len(set) : set[k] = c
        Stops == {i \in 1..Len(rawURL) :
                     /\ ~In(ToLower(<<rawURL[i]>>)[1], Letters)
                     /\ ~In(rawURL[i], Others)}
        Upto(i) == IF rawURL[i] = ":" /\ i > 1 /\ ~In(rawURL[1], Others)
                   THEN ToLower(SubSeq(rawURL, 1, i - 1)) ELSE <<>>
    IN  IF Stops = {} THEN <<>>
        ELSE Upto(CHOOSE i \in Stops : \A j \in Stops : i <= j)

\* manifest.Validate(m) for a loaded manifest: the schema, the rules of
\* Validate above, then the asset of every version and platform.  Of
\* several errors the code returns the one its map iteration meets first.
ValidateLoaded(m) ==
    LET Hex == <<"0","1","2","3","4","5","6","7","8","9","a","b","c","d","e",
          "f","A","B","C","D","E","F">>
        \* ^sha256:[a-fA-F0-9]{64}$
        ChecksumMatches(s) ==
            /\ HasPrefix(s, <<"s","h","a","2","5","6",":">>)
            /\ Len(s) = 7 + HexLen
            /\ \A i \in 8..Len(s) : \E k \in 1..Len(Hex) : Hex[k] = s[i]
        Where(v, p) == v \o <<"/">> \o p
        AssetError(a, v, p) ==
            IF a.type # <<"t","a","r">> /\ a.type # <<"z","i","p">>
            THEN << <<"i","n","v","a","l","i","d"," ","a","s","s","e","t"," ",
                  "t","y","p","e"," ">> \o Quote(a.type) \o <<" ","f","o","r",
                  " ">>
                    \o Where(v, p) \o <<":"," ","m","u","s","t"," ","b","e",
                          " ","'","t","a","r","'"," ","o","r"," ","'","z","i",
                          "p","'">> >>
            ELSE IF a.url = <<>>
            THEN << <<"m","i","s","s","i","n","g"," ","U","R","L"," ","f","o",
                  "r"," ">> \o Where(v, p) >>
            ELSE IF Scheme(a.url) # <<"h","t","t","p","s">>
            THEN << <<"U","R","L"," ","m","u","s","t"," ","u","s","e"," ","H",
                  "T","T","P","S",":"," ">> \o Quote(a.url) \o <<" ","f","o",
                  "r"," ">>
                    \o Where(v, p) >>
            ELSE IF a.checksum = <<>>
            THEN << <<"m","i","s","s","i","n","g"," ","c","h","e","c","k","s",
                  "u","m"," ","f","o","r"," ">> \o Where(v, p) >>
            ELSE IF ~ChecksumMatches(a.checksum)
            THEN << <<"i","n","v","a","l","i","d"," ","c","h","e","c","k","s",
                  "u","m"," ","f","o","r","m","a","t"," ","f","o","r",
                  " ">> \o Where(v, p)
                    \o <<":"," ","m","u","s","t"," ","b","e"," ","s","h","a",
                          "2","5","6",":","h","e","x"," ","(","6","4"," ","c",
                          "h","a","r","s",")">> >>
            ELSE Nil
        Bad == {vp \in {<<v, p>> : v \in DOMAIN m.versions,
                                   p \in UNION {DOMAIN m.versions[w] : w \in DOMAIN m.versions}} :
                   /\ vp[2] \in DOMAIN m.versions[vp[1]]
                   /\ AssetError(m.versions[vp[1]][vp[2]], vp[1], vp[2]) # Nil}
        First(vp) == AssetError(m.versions[vp[1]][vp[2]], vp[1], vp[2])
        Assets(basic) ==
            IF basic # Nil THEN basic
            ELSE IF Bad # {} THEN First(CHOOSE vp \in Bad : TRUE)
            ELSE Nil
    IN  IF m.schema = 0
        THEN << <<"m","i","s","s","i","n","g"," ","r","e","q","u","i","r","e",
              "d"," ","f","i","e","l","d",":"," ","s","c","h","e","m","a">> >>
        ELSE IF m.schema # 1
        THEN << <<"u","n","s","u","p","p","o","r","t","e","d"," ","s","c","h",
              "e","m","a"," ","v","e","r","s","i","o","n",":",
              " ">> \o Itoa(m.schema)
                \o <<" ","(","e","x","p","e","c","t","e","d"," ","1",")">> >>
        ELSE Assets(Validate([name |-> m.name, bins |-> m.bins,
                              versions |-> [v \in DOMAIN m.versions |->
                                               DOMAIN m.versions[v]]]))

\* Registry.fetch(ctx, url) against a server that gives the answer
fetch(url, answer) ==
    IF answer.kind = "transport"
    THEN [data |-> <<>>, err |-> DoError(url, answer.cause)]
    ELSE IF answer.resp.code # 200
    THEN [data |-> <<>>, err |-> StatusError(answer.resp)]
    ELSE [data |-> answer.data, err |-> Nil]

\* a LoadPackage that returns what the cache holds when it parses
LoadPackage_TrustCache(f, name, answer) ==
    LET Loaded(l) == [fs |-> f, m |-> l.m, err |-> l.err, requests |-> 0]
    IN  Loaded(LoadFromBytes(ReadFile(f, PackageManifestPath(name)).data))

\* Registry.LoadPackage(ctx, name): the manifest, the error, the file
\* system afterwards, and the number of requests sent
LoadPackage(f, name, answer) ==
    LET manifestPath == PackageManifestPath(name)
        None == [schema |-> 0, name |-> <<>>, bins |-> <<>>, versions |-> <<>>]
        Failed(prefix, err) ==
            [fs |-> f, m |-> None, err |-> Wrapf(prefix, err), requests |-> 1]
        Stored(data, l, made) ==
            [fs |-> IF made.err = Nil
                    THEN WriteFile(made.fs, manifestPath, 420, data).fs
                    ELSE made.fs,
             m |-> l.m, err |-> Nil, requests |-> 1]
        Valid(data, l, err) ==
            IF err # Nil THEN Failed(<<"i","n","v","a","l","i","d"," ","m",
                  "a","n","i","f","e","s","t",":"," ">>, err)
            ELSE Stored(data, l, MkdirAll(f, Join(RegistryDir, <<"p","a","c",
                  "k","a","g","e","s">>), 493))
        Parsed(data, l) ==
            IF l.err # Nil THEN Failed(<<"f","a","i","l","e","d"," ","t","o",
                  " ","p","a","r","s","e"," ","m","a","n","i","f","e","s","t",
                  ":"," ">>, l.err)
            ELSE Valid(data, l, ValidateLoaded(l.m))
        Fetched(r) ==
            IF r.err # Nil THEN Failed(<<"f","a","i","l","e","d"," ","t","o",
                  " ","f","e","t","c","h"," ","m","a","n","i","f","e","s","t",
                  ":"," ">>, r.err)
            ELSE Parsed(r.data, LoadFromBytes(r.data))
        Remote(u) == Fetched(fetch(u, answer))
        Checked(l, err) ==
            IF err = Nil
            THEN [fs |-> f, m |-> l.m, err |-> Nil, requests |-> 0]
            ELSE Remote(TrimSuffix(BaseURL, <<"/">>) \o <<"/","p","a","c","k",
                  "a","g","e","s","/">> \o name
                        \o <<".","y","a","m","l">>)
        Cached(l) ==
            IF l.err = Nil THEN Checked(l, ValidateLoaded(l.m))
            ELSE Checked(l, l.err)
        Read(c) == IF c.err = Nil THEN Cached(LoadFromBytes(c.data))
                   ELSE Checked(c, c.err)
    IN  Read(ReadFile(f, manifestPath))

\* yaml.Unmarshal(indexData, &index): the packages of a block document
UnmarshalIndex(data) ==
    LET Meta == [name |-> <<>>, description |-> <<>>]
        Field(p, y) ==
            IF y.key = <<"n","a","m","e">> THEN [p EXCEPT !.name = y.value]
            ELSE IF y.key = <<"d","e","s","c","r","i","p","t","i","o",
                  "n">> THEN [p EXCEPT !.description = y.value]
            ELSE p
        Line(st, y) ==
            IF y.blank THEN st
            ELSE IF y.indent = 0
            THEN IF y.item \/ y.colon = 0
                 THEN [st EXCEPT !.err = ErrUnmarshal(<<"!","!","s","t","r",
                       " ","i","n","t","o"," ","r","e","g","i","s","t","r",
                       "y",".","I","n","d","e","x">>)]
                 ELSE [st EXCEPT !.top = y.key]
            ELSE IF st.top # <<"p","a","c","k","a","g","e",
                  "s">> \/ y.colon = 0 THEN st
            ELSE IF y.item
            THEN [st EXCEPT !.packages = Append(@, Field(Meta, y))]
            ELSE IF st.packages # <<>>
            THEN [st EXCEPT !.packages[Len(st.packages)] = Field(@, y)]
            ELSE st
        RECURSIVE Load(_, _)
        Load(st, ls) ==
            IF ls = <<>> \/ st.err # Nil
            THEN [packages |-> st.packages, err |-> st.err]
            ELSE Load(Line(st, YamlLine(Head(ls))), Tail(ls))
    IN  Load([packages |-> <<>>, top |-> <<>>, err |-> Nil], Lines(Text(data)))

\* Registry.Search(ctx, query): the matching packages, the error, the file
\* system afterwards, and the number of requests sent
Search(f, query, answer) ==
    LET Matches(p) ==
            \/ Contains(ToLower(p.name), ToLower(query))
            \/ Contains(ToLower(p.description), ToLower(query))
        RECURSIVE Filter(_)
        Filter(ps) ==
            IF ps = <<>> THEN <<>>
            ELSE (IF Matches(Head(ps)) THEN <<Head(ps)>> ELSE <<>>)
                 \o Filter(Tail(ps))
        Parsed(n, index) ==
            IF index.err # Nil
            THEN [fs |-> f, results |-> <<>>, requests |-> n,
                  err |-> Wrapf(<<"f","a","i","l","e","d"," ","t","o"," ","p",
                        "a","r","s","e"," ","i","n","d","e","x",":",
                        " ">>, index.err)]
            ELSE [fs |-> f, results |-> Filter(index.packages), requests |-> n,
                  err |-> Nil]
        Fetched(r) ==
            IF r.err # Nil
            THEN [fs |-> f, results |-> <<>>, requests |-> 1,
                  err |-> Wrapf(<<"f","a","i","l","e","d"," ","t","o"," ","f",
                        "e","t","c","h"," ","i","n","d","e","x",":",
                        " ">>, r.err)]
            ELSE Parsed(1, UnmarshalIndex(r.data))
        Read(c) ==
            IF c.err = Nil THEN Parsed(0, UnmarshalIndex(c.data))
            ELSE Fetched(fetch(TrimSuffix(BaseURL, <<"/">>) \o <<"/","i","n",
                  "d","e","x",".","y","a","m","l">>, answer))
    IN  Read(ReadFile(f, IndexPath))

\* the text of a manifest of pk with one version, one platform, one asset
ManifestDoc(schema, type, url, checksum) ==
    <<"s","c","h","e","m","a",":"," ">> \o schema \o <<"\n","n","a","m","e",
          ":"," ","p","k","\n","b","i","n","s",":","\n"," "," ","-"," ","b",
          "i","n","/","t","o","o","l","\n","v","e","r","s","i","o","n","s",
          ":","\n">>
    \o <<" "," ","\"","1",".","0",".","0","\"",":","\n"," "," "," "," ","p",
          "l","a","t","f","o","r","m","s",":","\n"," "," "," "," "," "," ",
          "l","i","n","u","x","-","a","m","d","6","4",":","\n"," "," "," ",
          " "," "," "," "," ","t","y","p","e",":"," ">>
    \o type \o <<"\n"," "," "," "," "," "," "," "," ","u","r","l",":",
          " ">> \o url \o <<"\n"," "," "," "," "," "," "," "," ","c","h","e",
          "c","k","s","u","m",":"," ">>
    \o checksum \o <<"\n">>

\* the manifests that the cache or the server hold: a valid one, one with
\* its checksum in upper case, one each with a wrong schema, type, URL
\* scheme and checksum, a page that is no manifest, and an empty document
ManifestDocs ==
    {ManifestDoc(<<"1">>, <<"t","a","r">>, <<"h","t","t","p","s",":","/","/",
          "h","/","a">>, ChecksumOf(<<104>>)),
     ManifestDoc(<<"1">>, <<"z","i","p">>, <<"H","T","T","P","S",":","/","/",
           "h","/","a">>, ToUpperHex(ChecksumOf(<<104>>))),
     ManifestDoc(<<"2">>, <<"t","a","r">>, <<"h","t","t","p","s",":","/","/",
           "h","/","a">>, ChecksumOf(<<104>>)),
     ManifestDoc(<<"1">>, <<"e","x","e">>, <<"h","t","t","p","s",":","/","/",
           "h","/","a">>, ChecksumOf(<<104>>)),
     ManifestDoc(<<"1">>, <<"t","a","r">>, <<"h","t","t","p",":","/","/","h",
           "/","a">>, ChecksumOf(<<104>>)),
     ManifestDoc(<<"1">>, <<"t","a","r">>, <<"h","t","t","p","s",":","/","/",
           "h","/","a">>, <<"s","h","a","2","5","6",":","a","b","c","d">>),
     <<"<","h","t","m","l",">","\n">>,
     <<>>}

\* the indexes that the cache or the server hold
IndexDocs ==
    {<<"p","a","c","k","a","g","e","s",":","\n"," "," ","-"," ","n","a","m",
          "e",":"," ","p","k","\n"," "," "," "," ","d","e","s","c","r","i",
          "p","t","i","o","n",":"," ","A"," ","T","o","o","l","\n"," "," ",
          "-"," ","n","a","m","e",":"," ","o","t","h","e","r","\n">>,
     <<"<","h","t","m","l",">","\n">>}

\* the query arguments of Search
Queries == {<<>>, <<"T","O","O","L">>, <<"z","z">>}

\* what the server does with a request for one of the documents
RegistryAnswers(docs) ==
    {[kind |-> "transport", cause |-> f.cause,
      resp |-> [code |-> 0, reason |-> <<>>], data |-> <<>>] :
        f \in {x \in TransportFailures : ~x.reached}}
    \cup {[kind |-> "response", cause |-> Nil, resp |-> r, data |-> <<>>] :
            r \in {x \in Responses : x.code \in {404, 503}}}
    \cup {[kind |-> "response", cause |-> Nil,
           resp |-> CHOOSE x \in Responses : x.code = 200,
           data |-> Bytes(d)] : d \in docs}

\* a home whose registry cache holds a manifest of pk, an index, both or
\* neither
RegistryInit ==
    /\ reg = [op |-> "none"]
    /\ \E manifests \in SUBSET {PackageManifestPath(<<"p","k">>)},
          indexes \in SUBSET {IndexPath} :
          \E md \in ManifestDocs, id \in IndexDocs :
             \E made \in {IF manifests \cup indexes = {} THEN HomeFS
                          ELSE MkdirAll(HomeFS, Join(RegistryDir, <<"p","a",
                                "c","k","a","g","e","s">>),
                                        493).fs} :
                fs = [p \in manifests |-> FileNode(420, Bytes(md))]
                     @@ [p \in indexes |-> FileNode(420, Bytes(id))]
                     @@ made

\* one call of LoadPackage
LoadPackageCall ==
    \E answer \in RegistryAnswers(ManifestDocs) :
       \E r \in {LoadPackage(fs, <<"p","k">>, answer)} :
          /\ fs' = r.fs
          /\ reg' = [op |-> "LoadPackage", answer |-> answer, m |-> r.m,
                     err |-> r.err, requests |-> r.requests]

\* one call of Search
SearchCall ==
    \E query \in Queries, answer \in RegistryAnswers(IndexDocs) :
       \E r \in {Search(fs, query, answer)} :
          /\ fs' = r.fs
          /\ reg' = [op |-> "Search", answer |-> answer, query |-> query,
                     results |-> r.results, err |-> r.err,
                     requests |-> r.requests]

(***************************************************************************)
(* One install request: Fetcher, ArchiveExtractor, Installer, ShimManager  *)
(***************************************************************************)

\* the archives of the registry: the one of version 1.0.0, the one of
\* version 2.0.0, whose first entry names a launcher above the extraction
\* directory, and one that no asset of the manifest names
RequestArchive ==
    LET Tar(entries) ==
            [format |-> "tar", entries |-> entries, truncated |-> FALSE]
    IN  [good |-> Tar(<< Entry(<<"p","k","g","/","b","i","n","/","t","o","o",
          "l">>, "reg", 493, <<116>>),
                         Entry(<<"p","k","g","/","b","i","n","/","a","u",
                               "x">>, "reg", 420, <<97>>) >>),
         escaping |-> Tar(<< Entry(<<".",".","/",".",".","/","h","/",".","n",
               "o","r","i","/","s","h","i","m","s","/","t","o","o",
               "l">>, "reg", 493,
                                   <<101>>),
                             Entry(<<"p","k","g","/","b","i","n","/","t","o",
                                   "o","l">>, "reg", 493, <<116>>) >>),
         other |-> Tar(<< Entry(<<"p","k","g","/","b","i","n","/","t","o","o",
               "l">>, "reg", 493, <<120>>),
                          Entry(<<"p","k","g","/","b","i","n","/","a","u",
                                "x">>, "reg", 420, <<120>>) >>)]

\* m.GetAsset(version, platform) of a version that ValidateVersion
\* accepted: the type, the URL and the checksum of its archive
GetAsset(version) ==
    LET Asset(a) == [type |-> <<"t","a","r">>, url |-> <<"h","t","t","p",":",
          "/","/","h","/","a">>,
                     checksum |-> ChecksumOf(Encode(a))]
    IN  IF version = <<"1",".","0",".","0">> THEN Asset(RequestArchive.good)
        ELSE Asset(RequestArchive.escaping)

\* the archive that the bytes of a file hold
Decode(data) ==
    CHOOSE a \in {RequestArchive.good, RequestArchive.escaping,
                  RequestArchive.other} : Encode(a) = data

\* what the server may do with one request for the asset of a version: a
\* status that is not 2xx, a request that the cancelled context or the
\* network ended, or a 200 with the bytes of the asset or with other bytes,
\* read to the end (final = Nil) or cut off
RequestAnswers(version) ==
    {[kind |-> "status", resp |-> r, chunks |-> <<>>, final |-> Nil] :
        r \in {x \in Responses : x.code \in {404, 503}}}
    \cup {[kind |-> "transport", resp |-> [code |-> 0, reason |-> <<>>],
           chunks |-> <<>>, final |-> DoError(GetAsset(version).url, cause)] :
            cause \in {Canceled}
                      \cup {t.cause : t \in {x \in TransportFailures :
                                                x.reached}}}
    \cup {[kind |-> "body", resp |-> CHOOSE x \in Responses : x.code = 200,
           chunks |-> << Encode(a) >>, final |-> e] :
            a \in {Decode(data) :
                     data \in {Encode(b) : b \in {RequestArchive.other,
                          IF version = <<"1",".","0",".",
                                "0">> THEN RequestArchive.good
                          ELSE RequestArchive.escaping}}},
            e \in {Nil, << <<"u","n","e","x","p","e","c","t","e","d"," ","E",
                  "O","F">> >>}}

\* a request: where it is ("idle" before the first one; "fetch", "extract",
\* "install" while its stages run; "rejected", "failed" in the Fetcher or
\* the Extractor, or "returned" from the Installer and the ShimManager)
Request(pc, version, f) ==
    [pc |-> pc, version |-> version,
     answer |-> [kind |-> "none", resp |-> [code |-> 0, reason |-> <<>>],
                 chunks |-> <<>>, final |-> Nil],
     run |-> ProgressRun, stages |-> <<>>, results |-> <<>>, fs0 |-> f,
     err |-> Nil]

\* no request yet, one volume, with or without room on it
RequestInit ==
    /\ InstallInit
    /\ crossDevice = FALSE
    /\ req = Request("idle", <<>>, HomeFS)

\* the variables of the install command but the count of its runs
installButRuns == <<ipc, crossDevice, hasSymlinks, iversion, itree, iroom,
                    iextractDir, iroot, ipath, ierr, serr, ifs0, ifs1, ilog>>

\* Extract returned and its locals are gone
ExtractLocalsReset ==
    /\ epc' = "off"
    /\ earchive' = [format |-> "tar", entries |-> <<>>, truncated |-> FALSE]
    /\ eassetType' = <<>>
    /\ echecksum' = <<>>
    /\ etmp' = <<>>
    /\ eidx' = 1
    /\ eret' = <<>>
    /\ eerr' = Nil

\* InstallCommand for a version that manifest.ValidateVersion refuses
RequestRejected ==
    /\ req.pc \in {"idle", "rejected", "failed", "returned"}
    /\ iruns < MaxRuns
    /\ \E version \in Versions :
         /\ ValidateVersion(Manifest, version, Platform) # Nil
         /\ req' = [Request("rejected", version, fs) EXCEPT
                      !.err = ValidateVersion(Manifest, version, Platform)]
    /\ iruns' = iruns + 1
    /\ UNCHANGED <<fs, extractLocals, installButRuns>>

\* InstallCommand up to the call of the Fetcher
RequestStart ==
    /\ req.pc \in {"idle", "rejected", "failed", "returned"}
    /\ iruns < MaxRuns
    /\ \E version \in Versions :
         /\ ValidateVersion(Manifest, version, Platform) = Nil
         /\ req' = [Request("fetch", version, fs) EXCEPT
                      !.stages = << "Fetcher" >>]
    /\ UNCHANGED <<fs, extractLocals, installVars>>

\* one step of fetcher.FetchWithProgress(ctx, asset.URL, asset.Checksum,
\* downloadBar); when it returns, "download failed", or the call of the
\* extractor with the data
RequestFetch ==
    /\ req.pc = "fetch"
    /\ \E a \in IF req.run.pc = "request" THEN RequestAnswers(req.version)
                ELSE {req.answer} :
         \E run \in {ProgressStep(req.run, [k \in 1..maxRetries |-> a],
                                  GetAsset(req.version).checksum, "bar")} :
            IF run.pc # "done"
            THEN /\ req' = [req EXCEPT !.run = run, !.answer = a]
                 /\ UNCHANGED <<extractLocals, iruns>>
            ELSE IF run.err # Nil
            THEN /\ req' = [req EXCEPT
                              !.run = run, !.answer = a, !.pc = "failed",
                              !.results = Append(@, run.err),
                              !.err = Wrapf(<<"d","o","w","n","l","o","a","d",
                                    " ","f","a","i","l","e","d",":",
                                    " ">>, run.err)]
                 /\ iruns' = iruns + 1
                 /\ UNCHANGED extractLocals
            ELSE /\ req' = [req EXCEPT
                              !.run = run, !.answer = a, !.pc = "extract",
                              !.results = Append(@, Nil),
                              !.stages = Append(@, "ArchiveExtractor")]
                 /\ epc' = "call"
                 /\ earchive' = Decode(run.ret[1])
                 /\ eassetType' = GetAsset(req.version).type
                 /\ echecksum' = GetAsset(req.version).checksum
                 /\ UNCHANGED <<etmp, eidx, eret, eerr, iruns>>
    /\ UNCHANGED <<fs, installButRuns>>

\* the extractor returned: "extraction failed", or the deferred removal is
\* registered and the Installer is called with the directory
RequestExtracted ==
    /\ req.pc = "extract"
    /\ epc = "done"
    /\ IF eerr # Nil
       THEN /\ req' = [req EXCEPT !.pc = "failed",
                                  !.results = Append(@, eerr),
                                  !.err = Wrapf(<<"e","x","t","r","a","c","t",
                                        "i","o","n"," ","f","a","i","l","e",
                                        "d",":"," ">>, eerr)]
            /\ iruns' = iruns + 1
            /\ UNCHANGED installButRuns
       ELSE /\ req' = [req EXCEPT !.pc = "install",
                                  !.results = Append(@, Nil),
                                  !.stages = Append(@, "Installer")]
            /\ ipc' = "install"
            /\ iversion' = req.version
            /\ iextractDir' = eret
            /\ UNCHANGED <<iruns, crossDevice, hasSymlinks, itree, iroom, iroot,
                           ipath, ierr, serr, ifs0, ifs1, ilog>>
    /\ ExtractLocalsReset
    /\ UNCHANGED fs

\* the Installer returned: "installation failed", or the ShimManager is
\* called with the install path
RequestInstall ==
    /\ req.pc = "install"
    /\ InstallCall
    /\ req' = [req EXCEPT
                 !.results = Append(@, ierr'),
                 !.stages = IF ipc' = "shims" THEN Append(@, "ShimManager")
                            ELSE @]

\* the ShimManager returned
RequestShims ==
    /\ req.pc = "install"
    /\ ShimsCall
    /\ req' = [req EXCEPT !.results = Append(@, serr')]

\* InstallCommand returns what the Installer or the ShimManager returned
RequestReturn ==
    /\ req.pc = "install"
    /\ InstallReturn
    /\ req' = [req EXCEPT
                 !.pc = "returned",
                 !.err = IF ierr # Nil
                         THEN Wrapf(<<"i","n","s","t","a","l","l","a","t","i",
                               "o","n"," ","f","a","i","l","e","d",":",
                               " ">>, ierr)
                         ELSE IF serr # Nil
                         THEN Wrapf(<<"f","a","i","l","e","d"," ","t","o"," ",
                               "c","r","e","a","t","e"," ","s","h","i","m",
                               "s",":"," ">>, serr)
                         ELSE Nil]

(***************************************************************************)
(* Specifications: one per component, the others at rest                   *)
(***************************************************************************)

VerifyNext == VerifyCall /\ UNCHANGED <<fetchVars, extractVars, installVars, commandVars>>

VerifySpecInit == VerifyInit /\ FetchOff /\ ExtractOff /\ InstallOff /\ CommandsOff

SpecVerify == VerifySpecInit /\ [][VerifyNext]_vars

FetchNext ==
    \/ Cancel /\ UNCHANGED <<verifyVars, extractVars, installVars, commandVars>>
    \/ Tick /\ UNCHANGED <<verifyVars, extractVars, installVars, commandVars>>
    \/ FetchWake /\ UNCHANGED <<verifyVars, extractVars, installVars, commandVars>>
    \/ FetchAttempt /\ UNCHANGED <<verifyVars, extractVars, installVars, commandVars>>

FetchSpecInit == FetchInit /\ VerifyOff /\ ExtractOff /\ InstallOff /\ CommandsOff

SpecFetch == FetchSpecInit /\ [][FetchNext]_vars

ExtractNext ==
    \/ ExtractBegin /\ UNCHANGED <<verifyVars, fetchVars, installVars, commandVars>>
    \/ ExtractEntry /\ UNCHANGED <<verifyVars, fetchVars, installVars, commandVars>>
    \/ ExtractEnd /\ UNCHANGED <<verifyVars, fetchVars, installVars, commandVars>>

ExtractSpecInit == ExtractInit /\ VerifyOff /\ FetchOff /\ InstallOff /\ CommandsOff

SpecExtract == ExtractSpecInit /\ [][ExtractNext]_vars

InstallNext ==
    \/ CommandRejected /\ UNCHANGED <<verifyVars, fetchVars, extractLocals, commandVars>>
    \/ InstallStart /\ UNCHANGED <<verifyVars, fetchVars, extractLocals, commandVars>>
    \/ InstallCall /\ UNCHANGED <<verifyVars, fetchVars, extractLocals, commandVars>>
    \/ ShimsCall /\ UNCHANGED <<verifyVars, fetchVars, extractLocals, commandVars>>
    \/ InstallReturn /\ UNCHANGED <<verifyVars, fetchVars, extractLocals, commandVars>>

InstallSpecInit == InstallInit /\ VerifyOff /\ FetchOff /\ ExtractIdle /\ CommandsOff

SpecInstall == InstallSpecInit /\ [][InstallNext]_vars

ConfigNext ==
    \/ SetActiveCall /\ UNCHANGED <<verifyVars, fetchVars, extractLocals, installVars, useVars, pipes, lateVars>>
    \/ GetActiveCall /\ UNCHANGED <<verifyVars, fetchVars, extractLocals, installVars, useVars, pipes, lateVars>>
    \/ ListActiveCall /\ UNCHANGED <<verifyVars, fetchVars, extractLocals, installVars, useVars, pipes, lateVars>>

ConfigSpecInit ==
    /\ ConfigInit /\ VerifyOff /\ FetchOff /\ ExtractIdle /\ InstallOff /\ UseOff
    /\ pipes = <<>> /\ LateOff

SpecConfig == ConfigSpecInit /\ [][ConfigNext]_vars

CommandsNext ==
    \/ CommandRejected /\ cmdFailed' = TRUE
          /\ UNCHANGED <<verifyVars, fetchVars, extractLocals, configVars, ucmd, icancel, pipes, lateVars>>
    \/ InstallStartFrom(UseTrees) /\ UNCHANGED <<verifyVars, fetchVars, extractLocals, commandVars>>
    \/ ContextCancelled /\ UNCHANGED <<verifyVars, fetchVars, extractLocals, configVars, pipes, lateVars>>
    \/ InstallCall /\ UNCHANGED <<verifyVars, fetchVars, extractLocals, commandVars>>
    \/ ShimsCall /\ UNCHANGED <<verifyVars, fetchVars, extractLocals, commandVars>>
    \/ InstallReturn /\ cmdFailed' = (cmdFailed \/ ierr # Nil \/ serr # Nil)
          /\ icancel' = "no"
          /\ UNCHANGED <<verifyVars, fetchVars, extractLocals, configVars, ucmd, pipes, lateVars>>
    \/ UseCommand /\ UNCHANGED <<verifyVars, fetchVars, extractLocals, configVars, pipes, lateVars>>
    \/ WhichCommand /\ UNCHANGED <<verifyVars, fetchVars, extractLocals, configVars, pipes, lateVars>>

CommandsSpecInit ==
    /\ CommandsInit /\ VerifyOff /\ FetchOff /\ ExtractIdle /\ ConfigOff
    /\ pipes = <<>> /\ LateOff

SpecCommands == CommandsSpecInit /\ [][CommandsNext]_vars

PipesNext ==
    \/ \E i \in 1..2 : PipeStart(i)
          /\ UNCHANGED <<verifyVars, fetchVars, extractLocals, installVars, configVars, useVars, lateVars>>
    \/ \E i \in 1..2 : PipeInstall(i)
          /\ UNCHANGED <<verifyVars, fetchVars, extractLocals, installVars, configVars, useVars, lateVars>>
    \/ \E i \in 1..2 : PipeShims(i)
          /\ UNCHANGED <<verifyVars, fetchVars, extractLocals, installVars, configVars, useVars, lateVars>>
    \/ \E i \in 1..2 : PipeReturn(i)
          /\ UNCHANGED <<verifyVars, fetchVars, extractLocals, installVars, configVars, useVars, lateVars>>

PipesSpecInit ==
    /\ PipesInit /\ VerifyOff /\ FetchOff /\ ExtractIdle /\ ConfigOff /\ UseOff
    /\ LateOff

SpecPipes == PipesSpecInit /\ [][PipesNext]_vars

ProfileNext ==
    InitCall /\ UNCHANGED <<verifyVars, fetchVars, extractLocals, installVars,
                            configVars, useVars, pipes, prog, reg, req>>

ProfileSpecInit ==
    /\ ProfileInit /\ VerifyOff /\ FetchOff /\ ExtractIdle /\ InstallOff
    /\ ConfigOff /\ UseOff /\ pipes = <<>> /\ prog = [pc |-> "off"]
    /\ reg = [op |-> "off"] /\ req = [pc |-> "off"]

SpecProfile == ProfileSpecInit /\ [][ProfileNext]_vars

ProgressSpecNext ==
    ProgressNext /\ UNCHANGED <<verifyVars, fetchVars, extractVars, installVars,
                                configVars, useVars, pipes, shell, initc, reg,
                                req>>

ProgressSpecInit ==
    /\ ProgressInit /\ VerifyOff /\ FetchOff /\ ExtractOff /\ InstallOff
    /\ ConfigOff /\ UseOff /\ pipes = <<>> /\ ProfileOff
    /\ reg = [op |-> "off"] /\ req = [pc |-> "off"]

SpecProgress == ProgressSpecInit /\ [][ProgressSpecNext]_vars

RegistryNext ==
    \/ LoadPackageCall
          /\ UNCHANGED <<verifyVars, fetchVars, extractLocals, installVars,
                         configVars, useVars, pipes, shell, initc, prog,
                         req>>
    \/ SearchCall
          /\ UNCHANGED <<verifyVars, fetchVars, extractLocals, installVars,
                         configVars, useVars, pipes, shell, initc, prog,
                         req>>

RegistrySpecInit ==
    /\ RegistryInit /\ VerifyOff /\ FetchOff /\ ExtractIdle /\ InstallOff
    /\ ConfigOff /\ UseOff /\ pipes = <<>> /\ ProfileOff
    /\ prog = [pc |-> "off"] /\ req = [pc |-> "off"]

SpecRegistry == RegistrySpecInit /\ [][RegistryNext]_vars

RequestNext ==
    \/ RequestRejected
          /\ UNCHANGED <<verifyVars, fetchVars, configVars, useVars, pipes, shell,
                         initc, prog, reg>>
    \/ RequestStart
          /\ UNCHANGED <<verifyVars, fetchVars, configVars, useVars, pipes, shell,
                         initc, prog, reg>>
    \/ RequestFetch
          /\ UNCHANGED <<verifyVars, fetchVars, configVars, useVars, pipes, shell,
                         initc, prog, reg>>
    \/ ExtractBegin /\ req.pc = "extract"
          /\ UNCHANGED <<verifyVars, fetchVars, installVars, commandVars>>
    \/ ExtractEntry /\ req.pc = "extract"
          /\ UNCHANGED <<verifyVars, fetchVars, installVars, commandVars>>
    \/ ExtractEnd /\ req.pc = "extract"
          /\ UNCHANGED <<verifyVars, fetchVars, installVars, commandVars>>
    \/ RequestExtracted
          /\ UNCHANGED <<verifyVars, fetchVars, configVars, useVars, pipes, shell,
                         initc, prog, reg>>
    \/ RequestInstall
          /\ UNCHANGED <<verifyVars, fetchVars, extractLocals, configVars, useVars,
                         pipes, shell, initc, prog, reg>>
    \/ RequestShims
          /\ UNCHANGED <<verifyVars, fetchVars, extractLocals, configVars, useVars,
                         pipes, shell, initc, prog, reg>>
    \/ RequestReturn
          /\ UNCHANGED <<verifyVars, fetchVars, extractLocals, configVars, useVars,
                         pipes, shell, initc, prog, reg>>

RequestSpecInit ==
    /\ RequestInit /\ VerifyOff /\ FetchOff /\ ExtractIdle /\ ConfigOff
    /\ UseOff /\ pipes = <<>> /\ ProfileOff /\ prog = [pc |-> "off"]
    /\ reg = [op |-> "off"]

SpecRequest == RequestSpecInit /\ [][RequestNext]_vars

(***************************************************************************)
(* Claims about VerifyChecksum (SpecVerify)                                *)
(***************************************************************************)

\* a checksum string of the accepted form: "sha256:" and 64 hex characters
WellFormedChecksum(s) ==
    /\ Len(s) = 71
    /\ SubSeq(s, 1, 7) = <<"s","h","a","2","5","6",":">>
    /\ \A i \in 8..71 :
          s[i] \in {"0","1","2","3","4","5","6","7","8","9",
                    "a","b","c","d","e","f","A","B","C","D","E","F"}

\* the digest a well-formed checksum string states
StatedDigest(s) == DecodeString(SubSeq(s, 8, 71))

IsFormatError(err) ==
    /\ err # Nil
    /\ HasPrefix(Head(err), <<"i","n","v","a","l","i","d"," ",
                              "c","h","e","c","k","s","u","m"," ">>)

IsMismatchError(err) ==
    /\ err # Nil
    /\ HasPrefix(Head(err), <<"c","h","e","c","k","s","u","m"," ",
                              "m","i","s","m","a","t","c","h",":"," ">>)

\* ok, format or mismatch
Outcome(err) ==
    IF err = Nil THEN "ok"
    ELSE IF IsFormatError(err) THEN "format"
    ELSE IF IsMismatchError(err) THEN "mismatch"
    ELSE "other"

\* C7: VerifyChecksum(C, D) returns nil when D is a well-formed checksum
\* string that states SHA-256(C); for a well-formed D' that states another
\* digest it returns the mismatch error, whose text holds D' as given and
\* the actual digest of C in lower-case hex.
C7_VerifyDecidesByDigest ==
    (vpc = "ret" /\ WellFormedChecksum(vexpected)) =>
        IF StatedDigest(vexpected) = Sum256(vdata)
        THEN verr = Nil
        ELSE /\ IsMismatchError(verr)
             /\ Contains(Head(verr), vexpected)
             /\ Contains(Head(verr), <<"g","o","t"," ","s","h","a","2","5","6",":">>
                                       \o EncodeToString(Sum256(vdata)))

\* a call returned the mismatch error for a well-formed string of another
\* content's digest
C7_Witness ==
    /\ vpc = "ret"
    /\ vdata = HelloWorld
    /\ WellFormedChecksum(vexpected)
    /\ StatedDigest(vexpected) # Sum256(vdata)
    /\ IsMismatchError(verr)

\* C8: a string that is not "sha256:" followed by exactly 64 hex characters
\* fails with a format error whatever the content is (the format is checked
\* before any digest is compared); a string of that form never fails with a
\* format error; and the outcome for a string equals the outcome for the
\* same string with its hex letters in upper case.
C8_FormatDecidesFirst ==
    vpc = "ret" =>
        /\ ~WellFormedChecksum(vexpected) => IsFormatError(verr)
        /\ WellFormedChecksum(vexpected) => Outcome(verr) \in {"ok", "mismatch"}
        /\ Outcome(verr) = Outcome(VerifyChecksum(vdata, ToUpperHex(vexpected)))

\* a call accepted a checksum string written with upper-case hex letters
C8_Witness ==
    /\ vpc = "ret"
    /\ \E i \in 8..Len(vexpected) : vexpected[i] \in {"A","B","C","D","E","F"}
    /\ WellFormedChecksum(vexpected)
    /\ verr = Nil

(***************************************************************************)
(* Claims about Fetch (SpecFetch)                                          *)
(***************************************************************************)

\* the result of the latest call of fetchOnce
LastAttempt == history[Len(history)]

\* a response with a server error status
IsServerError(h) == h.kind = "status" /\ h.code \in 500..599

\* a failure of the transport: no response, or a response whose body could
\* not be read to its end
IsTransportFailure(h) == h.kind \in {"transport", "body"}

\* a 2xx response whose body was read
IsTransferred(h) == h.kind = "ok"

\* the body of a transferred response matches the expected checksum
BodyMatches(h) ==
    /\ WellFormedChecksum(fexpected)
    /\ StatedDigest(fexpected) = Sum256(h.data[1])

IsVerificationFailure(err) ==
    /\ err # Nil
    /\ HasPrefix(Head(err), <<"c","h","e","c","k","s","u","m"," ",
                              "v","e","r","i","f","i","c","a","t","i","o","n"," ",
                              "f","a","i","l","e","d",":"," ">>)

\* C1: Fetch returns bytes only with a nil error, and then the bytes are the
\* body of the latest attempt, that attempt is the only one that transferred
\* a body, and the digest of the bytes is the one the expected checksum
\* states; with an error it returns nil bytes.
C1_FetchReturnsVerifiedBody ==
    /\ fpc # "done" => fdata = <<>>
    /\ fpc = "done" =>
          IF ferr = Nil
          THEN /\ fdata # <<>>
               /\ IsTransferred(LastAttempt)
               /\ fdata = LastAttempt.data
               /\ \A i \in 1..(Len(history) - 1) : ~IsTransferred(history[i])
               /\ BodyMatches(LastAttempt)
          ELSE fdata = <<>>

\* Scenario A: "hello, world" is returned by the first attempt
C1_Witness ==
    /\ fpc = "done"
    /\ ferr = Nil
    /\ fdata = <<HelloWorld>>
    /\ Len(history) = 1

\* C2: a call of Fetch makes at least 1 and at most 3 attempts, and when 3
\* attempts were made and each failed with a transport failure or a server
\* error (the context not being done), the returned error reads "failed
\* after 3 attempts: " and wraps the error of the third attempt.
C2_BoundedAttemptsThenExhausted ==
    /\ Len(history) <= 3
    /\ fpc = "done" => Len(history) >= 1
    /\ (/\ fpc = "done"
        /\ ctxErr = Nil
        /\ Len(history) = 3
        /\ \A i \in 1..3 : IsTransportFailure(history[i]) \/ IsServerError(history[i]))
       => /\ fdata = <<>>
          /\ ferr # Nil
          /\ HasPrefix(Head(ferr), <<"f","a","i","l","e","d"," ","a","f","t","e","r"," ",
                                     "3"," ","a","t","t","e","m","p","t","s",":"," ">>)
          /\ Tail(ferr) = history[3].err

\* C3: an attempt that ends with a response that is neither 2xx nor 5xx, or
\* with a 2xx response whose body fails the verification, is the last one:
\* Fetch has returned its error, without a wait; and the error of a failed
\* verification, and only that one, is a "checksum verification failed"
\* error.
C3_ContentErrorsAreNotRetried ==
    \A i \in 1..Len(history) :
        LET h == history[i]
            rejected == h.kind = "status" /\ ~IsServerError(h)
            unverified == IsTransferred(h) /\ ~BodyMatches(h)
        IN  (rejected \/ unverified) =>
                /\ i = Len(history)
                /\ fpc = "done"
                /\ fdata = <<>>
                /\ IsVerificationFailure(ferr) <=> unverified
                /\ rejected => ferr = h.err

\* C4: while fewer than 3 attempts have been made and the context is not
\* done, an attempt that failed with a transport failure or a server error
\* is followed by another one: Fetch has not returned, it waits or attempts.
C4_TransientErrorsAreRetried ==
    (/\ Len(history) \in 1..2
     /\ ctxErr = Nil
     /\ IsTransportFailure(LastAttempt) \/ IsServerError(LastAttempt))
    => fpc \in {"wait", "attempt"}

\* C5: while the attempts so far (at most 2) all got a 5xx response and the
\* context is not done, Fetch has not returned; and when k attempts (k = 0,
\* 1, 2) got a 5xx response and attempt k+1 got a 2xx response whose body
\* matches the expected checksum, Fetch has returned that body with a nil
\* error and the server has received exactly k+1 requests.
C5_SucceedsAfterServerErrors ==
    /\ (/\ Len(history) \in 1..2
        /\ ctxErr = Nil
        /\ \A i \in 1..Len(history) : IsServerError(history[i]))
       => fpc \in {"wait", "attempt"}
    /\ \A k \in 0..2 :
          (/\ Len(history) = k + 1
           /\ \A i \in 1..k : IsServerError(history[i])
           /\ IsTransferred(history[k + 1])
           /\ BodyMatches(history[k + 1]))
          => /\ fpc = "done"
             /\ ferr = Nil
             /\ fdata = history[k + 1].data
             /\ requests = k + 1

\* Scenario B: 500, 500, then 200 with "hello, world"
C5_Witness ==
    /\ fpc = "done"
    /\ Len(history) = 3
    /\ history[1].code = 500
    /\ history[2].code = 500
    /\ history[3].code = 200
    /\ fdata = <<HelloWorld>>
    /\ ferr = Nil
    /\ requests = 3

\* C6: no wait comes before attempt 1; attempt n (n = 2, 3) is made only
\* after the waits before attempts 2..n ran to their end, and the wait
\* before attempt n lasted n-1 time units; when the context becomes done
\* during a wait, no attempt is made after it and Fetch returns the error
\* of the context and nil bytes.
C6_LinearBackoffAndCancel ==
    /\ Len(history) = 0 => (fpc = "attempt" /\ waits = <<>>)
    /\ Len(history) <= Len(waits) + 1
    /\ fpc = "attempt" => Len(waits) = Len(history)
    /\ \A n \in 2..(Len(waits) + 1) : waits[n - 1] = n - 1
    /\ cancelledInWait > 0 =>
          /\ Len(history) = cancelledInWait
          /\ fpc # "attempt"
          /\ ctxErr \in {Canceled, DeadlineExceeded}
          /\ fpc = "done" => (ferr = ctxErr /\ fdata = <<>>)

\* the context was cancelled in the wait before attempt 3, after the wait
\* before attempt 2 had run to its end, and Fetch has returned
C6_Witness ==
    /\ fpc = "done"
    /\ cancelledInWait = 2
    /\ waits = <<1>>
    /\ ferr = Canceled

(***************************************************************************)
(* Claims about Extract                                                    *)
(***************************************************************************)

\* the name has a parent-directory segment
HasParentSegment(name) ==
    \E i \in 1..Len(Split(name)) : Split(name)[i] = <<".", ".">>

\* the path at which the returned directory holds the entry
HeldAt(h) == Join(etmp, Clean(h.name))

\* nothing outside the temporary directory is created or written: every
\* path outside it is one of the file system before the call, unchanged
NothingOutside ==
    \A p \in DOMAIN fs :
        \/ etmp # <<>> /\ IsUnder(p, etmp)
        \/ p \in DOMAIN BaseFS /\ fs[p] = BaseFS[p]

\* C9 as stated: for both archive kinds, when an entry name is absolute or
\* contains a parent-directory segment Extract fails (it never returns
\* success), and in no state is anything created or written outside the
\* temporary directory.
C9_FailsOnParentSegment ==
    /\ (epc = "done" /\ eerr = Nil) =>
           \A i \in 1..Len(earchive.entries) :
               /\ ~IsAbs(earchive.entries[i].name)
               /\ ~HasParentSegment(earchive.entries[i].name)
    /\ NothingOutside

\* C9, amended: for both archive kinds, when an entry name is absolute or,
\* once cleaned (filepath.Clean), still contains a parent-directory segment,
\* Extract fails, and in no state of any extraction is anything created or
\* written outside the temporary directory.
C9_FailsOnCleanedParentSegment ==
    /\ (epc = "done" /\ eerr = Nil) =>
           \A i \in 1..Len(earchive.entries) :
               /\ ~IsAbs(earchive.entries[i].name)
               /\ ~HasParentSegment(Clean(earchive.entries[i].name))
    /\ NothingOutside

\* C9: an archive whose second entry is ../e, after a first entry that was
\* written, has been refused
C9_Witness ==
    /\ epc = "done"
    /\ etmp # <<>>
    /\ eidx = 2
    /\ Len(earchive.entries) = 2
    /\ earchive.entries[2].name = <<".", ".", "/", "e">>
    /\ eerr # Nil
    /\ Contains(Head(eerr), <<"p","a","t","h"," ","t","r","a","v","e","r","s","a","l">>)

BadChecksum ==
    \/ ~WellFormedChecksum(echecksum)
    \/ StatedDigest(echecksum) # Sum256(Encode(earchive))

\* C11: Extract verifies the checksum before it touches the file system.
\* When the checksum string is malformed or does not match the data, no
\* temporary directory is made and nothing is written in any state, and
\* Extract returns "" and the verification error.
C11_VerifiesBeforeTouching ==
    BadChecksum =>
        /\ etmp = <<>>
        /\ fs = BaseFS
        /\ epc = "done" => (eret = <<>> /\ IsVerificationFailure(eerr))

\* C11: Extract has returned for an archive of two entries and a checksum
\* string without the sha256: prefix
C11_Witness ==
    /\ epc = "done"
    /\ Len(earchive.entries) = 2
    /\ ~WellFormedChecksum(echecksum)
    /\ IsVerificationFailure(eerr)
    /\ IsFormatError(Tail(eerr))

\* the archive is one of the asset type, whole, and given with its checksum
ValidArchive ==
    /\ eassetType \in {<<"t","a","r">>, <<"z","i","p">>}
    /\ Readable(earchive, eassetType)
    /\ ~earchive.truncated
    /\ ~BadChecksum

\* Extract failed in the file system: no temporary directory, or no space
EnvironmentFailure ==
    /\ eerr # Nil
    /\ \/ Contains(Head(eerr), <<"t","e","m","p"," ","d","i","r","e","c","t","o","r","y">>)
       \/ Contains(Head(eerr), <<"f","a","i","l","e","d"," ","t","o"," ","w","r","i","t","e">>)

\* no two entries of the archive name the same path, and no entry names a
\* path under a file entry
DistinctEntries ==
    \A i, j \in 1..Len(earchive.entries) :
        i # j => ~IsUnder(Clean(<<"/">> \o earchive.entries[j].name),
                          Clean(<<"/">> \o earchive.entries[i].name))

\* C12: round trip.  For every whole tar or zip archive whose entry names
\* are relative and have no component "..", Extract succeeds (the file
\* system permitting), and every regular file entry is found at
\* <extract dir>/<entry name> with the archived content.
C12_RoundTrip ==
    (/\ epc = "done"
     /\ ValidArchive
     /\ DistinctEntries
     /\ ~EnvironmentFailure
     /\ \A i \in 1..Len(earchive.entries) :
            /\ ~IsAbs(earchive.entries[i].name)
            /\ ~HasParentSegment(earchive.entries[i].name))
    => /\ eerr = Nil
       /\ \A i \in 1..Len(earchive.entries) :
              earchive.entries[i].typ = "reg" =>
                  /\ Join(eret, earchive.entries[i].name) \in DOMAIN fs
                  /\ fs[Join(eret, earchive.entries[i].name)].kind = "file"
                  /\ fs[Join(eret, earchive.entries[i].name)].data
                         = earchive.entries[i].data

(***************************************************************************)
(* Claims about DetectRoot and Install (SpecInstall)                       *)
(***************************************************************************)

\* Install has returned in the run at hand
InstallReturned == ipc \in {"shims", "return"}

\* the names at the top of the extracted tree that do not start with a dot;
\* the directories among them; the others
TopNames ==
    {n \in DOMAIN itree : ~Contains(n, <<"/">>) /\ ~HasPrefix(n, <<".">>)}

TopDirs == {n \in TopNames : itree[n].kind = "dir"}

TopFiles == TopNames \ TopDirs

\* C13: DetectRoot returns the extracted tree itself whenever the tree has
\* top-level files, also when it has exactly one top-level directory next
\* to them; it returns the single subdirectory only when that is the sole
\* non-hidden top-level entry.
C13_TreeItselfWhenTopLevelFiles ==
    InstallReturned =>
        /\ TopFiles # {} => iroot = iextractDir
        /\ iroot # iextractDir =>
              \E d \in TopDirs : TopNames = {d} /\ iroot = Join(iextractDir, d)

\* C14: on a tree with exactly one non-hidden top-level directory and
\* nothing else DetectRoot returns that directory; on a tree with no
\* top-level directory, or with two or more, it returns the extracted tree
\* itself.
C14_OneDirectoryOrTreeItself ==
    InstallReturned =>
        /\ (Cardinality(TopDirs) = 1 /\ TopFiles = {}) =>
              \E d \in TopDirs : iroot = Join(iextractDir, d)
        /\ Cardinality(TopDirs) # 1 => iroot = iextractDir

\* C14, its case: Install has run on a tree with one top-level directory,
\* hidden entries aside, and DetectRoot gave it that directory
C14_Witness ==
    /\ InstallReturned
    /\ Cardinality(TopDirs) = 1
    /\ TopFiles = {}
    /\ iroot # iextractDir
    /\ iroot \in DOMAIN ifs0
    /\ ifs0[iroot].kind = "dir"

\* the paths of f at or under dir, with their nodes
Under(f, dir) == [p \in {q \in DOMAIN f : IsUnder(q, dir)} |-> f[p]]

\* the install directory of the key of the run at hand
InstallDir == InstallPath(Manifest.name, iversion, Platform)

\* the required binaries that the root DetectRoot gave does not hold, in
\* the file system Install was called with
MissingBins ==
    {i \in 1..Len(Manifest.bins) : Join(iroot, Manifest.bins[i]) \notin DOMAIN ifs0}

\* the error of Install for a missing binary
IsMissingBinary(err) ==
    \E i \in MissingBins :
        err = << <<"b","i","n"," ">> \o Quote(Manifest.bins[i])
                 \o <<" ","n","o","t"," ","f","o","u","n","d"," ","i","n"," ",
                       "e","x","t","r","a","c","t","e","d"," ","a","r","c",
                       "h","i","v","e">> >>

\* C15: if a required binary path does not exist under the detected package
\* root, Install fails with the missing-binary error before it changes the
\* install tree: no install directory is made, an existing one is left as
\* it was.
C15_MissingBinaryFailsBeforeMutation ==
    (InstallReturned /\ MissingBins # {}) =>
        /\ IsMissingBinary(ierr)
        /\ Under(ifs1, InstallsDir) = Under(ifs0, InstallsDir)

\* Install came to relocate the entries of the root, and moveContents
\* failed at one of them
RelocationFailed ==
    /\ \A i \in 1..Len(Manifest.bins) :
          ~IsNotExist(StatError(ifs0, Join(iroot, Manifest.bins[i])))
    /\ moveContents(MkdirAll(ifs0, InstallDir, 493).fs, iroot, InstallDir,
                    crossDevice, iroom).err # Nil

Launchers(f) == {p \in DOMAIN f : p # ShimsDir /\ Dir(p) = ShimsDir}

\* the launcher at p forwards to the path q: as a symbolic link to it, or
\* as the wrapper script that executes it
Forwards(f, p, q) ==
    IF f[p].kind = "symlink" THEN f[p].target = q
    ELSE f[p].data = WrapperScript(q)

\* the files in the install directories
Binaries(f) == {q \in DOMAIN f : IsUnder(q, InstallsDir) /\ f[q].kind = "file"}

\* C17: after any sequence of runs of the pipeline, failed ones among them,
\* every launcher in the shims directory resolves to a binary that exists
\* in an install directory.
C17_NoBrokenLauncher ==
    ipc = "idle" =>
        \A p \in Launchers(fs) : \E q \in Binaries(fs) : Forwards(fs, p, q)

\* the paths under dir in f, relative to dir
RelPaths(f, dir) ==
    {SubSeq(p, Len(dir) + 2, Len(p)) :
        p \in {q \in DOMAIN f : q # dir /\ IsUnder(q, dir)}}

\* the install directory holds exactly the entries of the package root, the
\* files with their content
HoldsExactly(f, dir, g, root) ==
    /\ RelPaths(f, dir) = RelPaths(g, root)
    /\ \A r \in RelPaths(g, root) :
          /\ f[Join(dir, r)].kind = g[Join(root, r)].kind
          /\ f[Join(dir, r)].data = g[Join(root, r)].data

\* C18: a successful re-install of a key that is already installed
\* overwrites the install directory wholesale: afterwards it holds exactly
\* the files of the new package root, and no file of the earlier install
\* that the new content lacks.
C18_ReinstallOverwritesWholesale ==
    (InstallReturned /\ ierr = Nil /\ InstallDir \in DOMAIN ifs0) =>
        HoldsExactly(ifs1, ipath, ifs0, iroot)

\* the same paths, of the same kind and with the same permission bits
SameFilesAndModes(a, b) ==
    /\ DOMAIN a = DOMAIN b
    /\ \A p \in DOMAIN a : a[p].kind = b[p].kind /\ a[p].mode = b[p].mode

\* C19: Install is idempotent: installing the same key twice from the same
\* content succeeds both times, and the install directory has the same
\* files with the same permission bits after the second install as after
\* the first.  (The volume has room for the files both times.)
C19_InstallIsIdempotent ==
    (/\ InstallReturned
     /\ iversion \in DOMAIN ilog
     /\ ilog[iversion].tree = itree
     /\ iroom = 9) =>
        /\ ierr = Nil
        /\ SameFilesAndModes(Under(ifs1, InstallDir), ilog[iversion].after)

\* the paths of the required binaries under the install path
BinPaths == {Join(ipath, Manifest.bins[i]) : i \in 1..Len(Manifest.bins)}

\* the file system of Install after the relocation, before the executable
\* bits are looked at
Relocated ==
    moveContents(MkdirAll(ifs0, InstallDir, 493).fs, iroot, InstallDir,
                 crossDevice, iroom).fs

\* after a successful Install the binaries that exist under the install
\* path have an executable bit, and nothing but the mode of a binary
\* differs from the file system after the relocation
ExecutableWhereFound ==
    (InstallReturned /\ ierr = Nil) =>
        \A before \in {Relocated} :
            /\ \A b \in BinPaths \cap DOMAIN ifs1 : ~NoExecBit(ifs1[b].mode)
            /\ DOMAIN ifs1 = DOMAIN before
            /\ \A p \in DOMAIN ifs1 \ BinPaths : ifs1[p] = before[p]
            /\ \A b \in BinPaths \cap DOMAIN ifs1 :
                  [ifs1[b] EXCEPT !.mode = 0] = [before[b] EXCEPT !.mode = 0]

\* C20: after Install returns success every required binary under the
\* returned install path has executable permission bits set, whatever mode
\* the archive declared for it; the permission bits of files that are not
\* required binaries are not changed by this step.
C20_BinariesExecutable ==
    /\ ExecutableWhereFound
    /\ (InstallReturned /\ ierr = Nil) => BinPaths \subseteq DOMAIN ifs1

(***************************************************************************)
(* Claims about the install path                                           *)
(***************************************************************************)

\* names, versions and platforms a manifest may carry, valid and not
KeyNames == {<<"p","k">>, <<"p","-","k">>, <<"p","_","k">>, <<"p","k","/","1",
      ".","0",".","0">>, <<"p">>, <<".",".">>, <<"P","k">>}

KeyVersions == {<<"1",".","0",".","0">>, <<"2",".","0",".","0">>, <<"1","0",
      ".","0",".","1">>, <<"1",".","0">>, <<"1",".","0",".","0","/","l","i",
      "n","u","x","-","a","m","d","6","4">>,
                <<".",".">>, <<"1",".",".","0">>}

KeyPlatforms == {<<"l","i","n","u","x","-","a","m","d","6","4">>, <<"l","i",
      "n","u","x","-","a","r","m","6","4">>, <<"d","a","r","w","i","n","-",
      "a","r","m","6","4">>,
                 <<"w","i","n","d","o","w","s","-","a","m","d","6",
                       "4">>, <<"l","i","n","u","x">>, <<"a","m","d","6","4",
                       "/","l","i","n","u","x","-","a","m","d","6","4">>}

\* the package keys of manifests that manifest.Validate accepts
ValidatedKeys ==
    {k \in KeyNames \X KeyVersions \X KeyPlatforms :
        Validate([name |-> k[1], bins |-> Manifest.bins,
                  versions |-> (k[2] :> {k[3]})]) = Nil}

\* the install path of each validated key
KeyPaths == [k \in ValidatedKeys |-> InstallPath(k[1], k[2], k[3])]

\* <root>/installs/<packageName>/<version>/<os>-<arch>, written out
WrittenOut(k) ==
    Home \o <<"/",".","n","o","r","i","/","i","n","s","t","a","l","l","s",
          "/">> \o k[1] \o <<"/">> \o k[2] \o <<"/">> \o k[3]

\* the install path of every validated key is the path written out, and no
\* two validated keys have the same one
InstallPathsDistinct ==
    /\ \A k \in ValidatedKeys : KeyPaths[k] = WrittenOut(k)
    /\ \A k1, k2 \in ValidatedKeys : k1 # k2 => KeyPaths[k1] # KeyPaths[k2]

\* C21: the install path is a pure function of the package key: Install on
\* success returns exactly <root>/installs/<packageName>/<version>/<os>-<arch>,
\* the same path for the same key on every call (the earlier successful
\* install of the key lies under the path returned now), and two different
\* validated keys never map to the same path.
C21_InstallPathIsFunctionOfKey ==
    /\ InstallPathsDistinct
    /\ (InstallReturned /\ ierr = Nil) =>
          /\ <<Manifest.name, iversion, Platform>> \in ValidatedKeys
          /\ ipath = WrittenOut(<<Manifest.name, iversion, Platform>>)
          /\ ipath \in DOMAIN ifs1 /\ ifs1[ipath].kind = "dir"
          /\ \A v \in DOMAIN ilog :
                (v = iversion) <=> (ipath \in DOMAIN ilog[v].after)

\* C21 witness: Install returns success for a key that was installed with
\* success before, while several keys are validated
C21_Witness ==
    /\ InstallReturned /\ ierr = Nil
    /\ iversion \in DOMAIN ilog
    /\ Cardinality(ValidatedKeys) > 2

(***************************************************************************)
(* Claims about the active-version configuration (SpecConfig)              *)
(***************************************************************************)

\* C30: the active-version configuration maps each package to the version
\* of the latest SetActive for it: after any sequence of SetActive calls,
\* GetActive(p) returns the version of the most recent SetActive(p, v),
\* GetActive of a package never set returns the empty string without an
\* error, ListActive returns exactly these pairs, and SetActive(p, v) never
\* changes or drops the active version of another package.
C30_ActiveIsLatestSetActive ==
    /\ cres.op = "SetActive" => cres.err = Nil
    /\ cres.op = "GetActive" =>
          /\ cres.err = Nil
          /\ cres.version = IF cres.pkg \in DOMAIN cset THEN cset[cres.pkg]
                            ELSE <<>>
    /\ cres.op = "ListActive" =>
          /\ cres.err = Nil
          /\ cres.active = cset
    /\ ListActive(fs) = [active |-> cset, err |-> Nil]

\* C30 witness: ListActive returns after every package has been set, one of
\* them to a version that is not written plain
C30_Witness ==
    /\ cres.op = "ListActive"
    /\ DOMAIN cset = ConfigPackages
    /\ \E p, q \in ConfigPackages : cset[p] = <<>> /\ cset[q] # <<>>

(***************************************************************************)
(* Claims about the ShimManager (SpecInstall)                              *)
(***************************************************************************)

\* the launcher of the i-th binary of the manifest, and its target under
\* the install path of the run
LauncherOf(i) == Join(ShimsDir, Base(Manifest.bins[i]))

TargetOf(i) == Join(ipath, Manifest.bins[i])

\* UpdateShims has returned success in this run
Published == ipc = "return" /\ ierr = Nil /\ serr = Nil

\* one publish, of the i-th binary, on the file system that Install left
PublishOne(i) ==
    CreateShim(ifs1, ShimsDir, Base(Manifest.bins[i]), TargetOf(i), hasSymlinks)

\* C22: the shims directory holds exactly one current mapping per binary
\* name and the last writer wins: after any sequence of successful publishes
\* the launcher of each binary name forwards to the target of the latest
\* publish for that name, also when a launcher for that name already existed
\* and pointed at another install, and a publish for one name leaves the
\* launchers of all other names unchanged.
C22_LastPublishWins ==
    /\ Published =>
          \A i \in 1..Len(Manifest.bins) :
              /\ LauncherOf(i) \in DOMAIN fs
              /\ Forwards(fs, LauncherOf(i), TargetOf(i))
    /\ (ipc = "return" /\ ierr = Nil) =>
          \A i \in 1..Len(Manifest.bins) :
              \A r \in {PublishOne(i)} :
                  r.err = Nil =>
                      \A p \in Launchers(ifs1) \ {LauncherOf(i)} :
                          p \in DOMAIN r.fs /\ r.fs[p] = ifs1[p]

\* C23: publishing is idempotent: publishing the same binary name with the
\* same target twice succeeds both times and leaves the whole file system
\* (the launcher in the shims directory and the target binary in the
\* install directory) in the same state as publishing it once.
C23_PublishIsIdempotent ==
    Published =>
        UpdateShims(fs, ShimsDir, Manifest.bins, ipath, hasSymlinks, 1)
            = FsResult(fs, Nil)

\* the error of UpdateShims for a target that does not exist
IsTargetMissing(err) ==
    /\ Len(err) = 1
    /\ HasPrefix(err[1], <<"t","a","r","g","e","t"," ","b","i","n","a","r",
          "y"," ">>)
    /\ Contains(err[1], <<" ","d","o","e","s"," ","n","o","t"," ","e","x","i",
          "s","t">>)

\* C24: when the resolved target of a declared binary does not exist under
\* the install path, UpdateShims fails with a target-missing error and
\* neither creates nor changes the launcher of that binary name.
C24_MissingTargetIsRefused ==
    (ipc = "return" /\ ierr = Nil) =>
        \A i \in 1..Len(Manifest.bins) :
            StatError(ifs1, TargetOf(i)) # Nil =>
                /\ IsTargetMissing(serr)
                /\ (LauncherOf(i) \in DOMAIN fs) = (LauncherOf(i) \in DOMAIN ifs1)
                /\ LauncherOf(i) \in DOMAIN fs => fs[LauncherOf(i)] = ifs1[LauncherOf(i)]

\* C25: the target-missing failure of the ShimManager is unreachable after
\* a successful install: whenever Install returned success with install
\* path P for required binaries B, every path P/b for b in B exists, so
\* UpdateShims(B, P) run directly afterwards never fails with
\* target-missing.
C25_TargetsExistAfterInstall ==
    (InstallReturned /\ ierr = Nil) =>
        /\ \A i \in 1..Len(Manifest.bins) : StatError(ifs1, TargetOf(i)) = Nil
        /\ ipc = "return" => ~IsTargetMissing(serr)

(***************************************************************************)
(* Claims about the commands (SpecCommands)                                *)
(***************************************************************************)

\* C26: launchers point at the currently active install: after any sequence
\* of successful install and use commands, the launchers of the package's
\* binaries forward to the install directory of the package's active
\* version, that is the same path that the which command reports for the
\* binary.
C26_LaunchersPointAtActive ==
    (ipc = "idle" /\ ~cmdFailed) =>
        \A i \in 1..Len(Manifest.bins) :
            LauncherOf(i) \in DOMAIN fs =>
                \A w \in {Which(fs, Manifest, Base(Manifest.bins[i]), Platform)} :
                    /\ w.err = Nil
                    /\ Forwards(fs, LauncherOf(i), w.path)

\* the paths of f at or under a temporary directory of the extractor
Temporary(f) == {p \in DOMAIN f : \E d \in TempNames : IsUnder(p, d)}

C28_CancellationStopsThePipeline ==
    /\ (ipc \in {"shims", "return"} /\ icancel = "install") =>
          /\ ierr # Nil
          /\ Under(fs, InstallsDir) = Under(ifs0, InstallsDir)
          /\ Under(fs, ShimsDir) = Under(ifs0, ShimsDir)
    /\ (ipc = "idle" /\ iruns > 0) => Temporary(fs) = {}

(***************************************************************************)
(* Claims about two install commands at the same time (SpecPipes)          *)
(***************************************************************************)

\* the file system after the install command for version from tree has run
\* alone on the home of the start
Alone(version, tree) ==
    LET dir == FirstOf(TempNames \ DOMAIN HomeFS)
        Shims(r) ==
            IF r.err # Nil THEN r.fs
            ELSE UpdateShims(r.fs, ShimsDir, Manifest.bins, r.path, hasSymlinks, 1).fs
    IN  RemoveAll(Shims(Install(Extracted(HomeFS, dir, tree), Manifest, version,
                                Platform, dir, crossDevice, iroom)), dir)

\* C29: two install pipelines for different package keys, interleaved in
\* any order, are independent: they use distinct temporary extraction
\* directories and distinct install directories, and each install directory
\* ends with exactly the content that pipeline would have produced when run
\* alone.
C29_PipelinesAreIndependent ==
    /\ (pipes # <<>> /\ \A i \in 1..2 : pipes[i].pc \notin {"start",
          "done"}) =>
          pipes[1].extractDir # pipes[2].extractDir
    /\ (pipes # <<>> /\ \A i \in 1..2 : pipes[i].pc = "done") =>
          /\ InstallPath(Manifest.name, pipes[1].version, Platform)
                # InstallPath(Manifest.name, pipes[2].version, Platform)
          /\ \A i \in 1..2 :
                \A p \in {InstallPath(Manifest.name, pipes[i].version, Platform)} :
                    Under(fs, p) = Under(Alone(pipes[i].version, pipes[i].tree), p)

(***************************************************************************)
(* Claims about relocation and publishing (SpecInstall)                    *)
(***************************************************************************)

\* the entries of the package root of the run, as paths relative to it, and
\* the top-level ones among them
RootPaths == RelPaths(ifs0, iroot)

RootEntries == {r \in RootPaths : \A i \in 1..Len(r) : r[i] # "/"}

\* C33: relocating an entry through the fallback (recursive copy, then
\* delete the source) gives the same destination as the atomic rename
\* would: the same directory structure, the same file contents and exactly
\* the same file and directory modes as the source had, and the source
\* entry no longer exists afterwards.  (All entries go through the fallback
\* when the temporary tree lies on another volume.)
C33_FallbackEqualsRename ==
    (InstallReturned /\ ierr = Nil /\ crossDevice) =>
        \A after \in {Relocated} :
            /\ \A r \in RootPaths :
                  /\ Join(InstallDir, r) \in DOMAIN after
                  /\ after[Join(InstallDir, r)] = ifs0[Join(iroot, r)]
                  /\ Join(iroot, r) \notin DOMAIN after
            /\ \A q \in RelPaths(after, InstallDir) :
                  (\E e \in RootEntries : q = e \/ HasPrefix(q, e \o <<"/">>))
                      => q \in RootPaths

\* C37: publishing launchers never modifies an install tree: CreateShim and
\* UpdateShims, from any prior state of the shims directory (including one
\* that already holds a launcher of the same name), change only entries of
\* the shims directory and leave the content and mode of every file under
\* every install directory unchanged.
C37_PublishLeavesInstallsAlone ==
    /\ ipc = "return" =>
          \A p \in DOMAIN fs \cup DOMAIN ifs1 :
              ~IsUnder(p, ShimsDir) =>
                  p \in DOMAIN fs /\ p \in DOMAIN ifs1 /\ fs[p] = ifs1[p]
    /\ (ipc = "return" /\ ierr = Nil) =>
          \A i \in 1..Len(Manifest.bins) :
              Under(PublishOne(i).fs, InstallsDir) = Under(ifs1, InstallsDir)

(***************************************************************************)
(* Claims about the use command (SpecCommands)                             *)
(***************************************************************************)

\* the error of UseCommand for a version that is not installed
NotInstalled(version) ==
    << <<"p","a","c","k","a","g","e",
          " ">> \o Manifest.name \o <<"@">> \o version \o <<" ","i","s"," ",
          "n","o","t"," ","i","n","s","t","a","l","l","e","d">> >>

\* C40 (as stated): the use command for a version whose install directory
\* does not exist fails with the not-installed error and changes nothing;
\* a run that changes anything has set the active version.
C40_UseOfMissingInstallIsNotInstalled ==
    [][UseCommand =>
        \A v \in {ucmd'.version} :
            /\ InstallPath(Manifest.name, v, Platform) \notin DOMAIN fs =>
                  /\ ucmd'.err = NotInstalled(v)
                  /\ fs' = fs
            /\ fs' # fs =>
                  GetActive(fs', Manifest.name) = [version |-> v, err |-> Nil]]_vars

\* C40 (amended): the use command for a version that the manifest lists for
\* the platform and whose install directory does not exist fails with the
\* not-installed error, for a version the manifest does not list it fails
\* with another error, and in both cases it changes neither the active
\* versions nor any launcher; a run that changes anything has set the active
\* version, and one that failed to set it has changed no launcher.
C40_UseOfListedMissingInstallIsNotInstalled ==
    [][UseCommand =>
        \A v \in {ucmd'.version} :
            /\ InstallPath(Manifest.name, v, Platform) \notin DOMAIN fs =>
                  /\ ucmd'.err # Nil
                  /\ ValidateVersion(Manifest, v, Platform) = Nil
                        => ucmd'.err = NotInstalled(v)
                  /\ fs' = fs
            /\ fs' # fs =>
                  GetActive(fs', Manifest.name) = [version |-> v, err |-> Nil]
            /\ GetActive(fs', Manifest.name).version # v =>
                  Under(fs', ShimsDir) = Under(fs, ShimsDir)]_vars

\* C40 witness: a use command was refused for a listed version that is not
\* installed, after an install of another version
C40_Witness ==
    /\ ucmd.op = "use"
    /\ ucmd.err = NotInstalled(ucmd.version)
    /\ ValidateVersion(Manifest, ucmd.version, Platform) = Nil
    /\ Under(fs, InstallsDir) # Under(HomeFS, InstallsDir)

(***************************************************************************)
(* Claims about the init command (SpecProfile)                             *)
(***************************************************************************)

\* the text of the profile of the shell, empty without the file
ProfileText(f) ==
    Text(ReadFile(f, ProfilePath(detectShell(shell))).data)

\* the number of lines of the profile that are the PATH line of the shell
PathLineCount(f) ==
    LET Count(ls) ==
            Cardinality({i \in 1..Len(ls) : ls[i] = PathLine(detectShell(shell))})
    IN  Count(Lines(ProfileText(f)))

\* C31: after every run of the init command, on a profile that held at most
\* one PATH line for the shims directory, the profile holds exactly one such
\* line, and every run after the first leaves the profile as it was and
\* reports that the line was already added.
C31_PathLineExactlyOnce ==
    [][InitCall =>
        /\ PathLineCount(fs) <= 1 => PathLineCount(fs') = 1
        /\ initc.op = "init" =>
              /\ ProfileText(fs') = ProfileText(fs)
              /\ ~initc'.added
              /\ initc'.err = Nil]_vars

(***************************************************************************)
(* Claims about the progress sink (SpecProgress)                           *)
(***************************************************************************)

AssetsWellFormed(m) ==
    \A v \in DOMAIN m.versions : \A p \in DOMAIN m.versions[v] :
        \A a \in {m.versions[v][p]} :
            /\ a.type \in {<<"t","a","r">>, <<"z","i","p">>}
            /\ HasPrefix(ToLower(a.url), <<"h","t","t","p","s",":">>)
            /\ HasPrefix(a.checksum, <<"s","h","a","2","5","6",":">>)
            /\ Len(a.checksum) = Len(<<"s","h","a","2","5","6",":">>) + HexLen
            /\ HexDecodeError(TrimPrefix(a.checksum, <<"s","h","a","2","5",
                  "6",":">>)) = Nil

\* C35 (for every step of a LoadPackage call): a manifest that LoadPackage
\* returns passes Validate and all its
\* assets have type tar or zip, an https URL and a well-formed checksum; a
\* cached manifest that parses and validates is returned with no request
\* and the cache untouched; otherwise one request is sent, a fetched
\* document that does not parse or validate (or no document) makes the call
\* fail and leaves the cache as it was, and a valid one is returned and
\* stored.
C35_LoadPackageReturnsValidated ==
    [][reg'.op = "LoadPackage" =>
        \A c \in {ReadFile(fs, PackageManifestPath(<<"p","k">>))} :
        \A l \in {LoadFromBytes(c.data)} :
        \A got \in {LoadFromBytes(reg'.answer.data)} :
            /\ reg'.err = Nil =>
                  /\ ValidateLoaded(reg'.m) = Nil
                  /\ AssetsWellFormed(reg'.m)
                  /\ DOMAIN reg'.m.versions # {}
            /\ IF c.err = Nil /\ l.err = Nil /\ ValidateLoaded(l.m) = Nil
               THEN /\ reg'.requests = 0
                    /\ reg'.err = Nil
                    /\ reg'.m = l.m
                    /\ fs' = fs
               ELSE /\ reg'.requests = 1
                    /\ IF \/ reg'.answer.kind = "transport"
                          \/ reg'.answer.resp.code # 200
                          \/ got.err # Nil
                          \/ ValidateLoaded(got.m) # Nil
                       THEN reg'.err # Nil /\ fs' = fs
                       ELSE /\ reg'.err = Nil
                            /\ reg'.m = got.m
                            /\ ReadFile(fs', PackageManifestPath(<<"p","k">>))
                                   = [data |-> reg'.answer.data, err |-> Nil]]_vars

\* C35 witness: LoadPackage returned the manifest from the cache, without a
\* request, while the server could not be reached
C35_Witness ==
    /\ reg.op = "LoadPackage"
    /\ reg.err = Nil
    /\ reg.requests = 0
    /\ reg.answer.kind = "transport"
    /\ AssetsWellFormed(reg.m)
    /\ fs[PackageManifestPath(<<"p","k">>)].data
          = Bytes(ManifestDoc(<<"1">>, <<"z","i","p">>, <<"H","T","T","P","S",
                ":","/","/","h","/","a">>,
                              ToUpperHex(ChecksumOf(<<104>>))))

\* C36: after a Search that found no cached index, fetched it and returned
\* without an error, the index is at the index cache path and reads back
\* as the document that was fetched.
C36_SearchCachesTheIndex ==
    [][(reg'.op = "Search" /\ reg'.err = Nil /\ reg'.requests = 1) =>
          ReadFile(fs', IndexPath) = [data |-> reg'.answer.data, err |-> Nil]]_vars

(***************************************************************************)
(* Claims about one install request (SpecRequest)                          *)
(***************************************************************************)

\* the stages of a request, in their order
Pipeline == << "Fetcher", "ArchiveExtractor", "Installer", "ShimManager" >>

\* C32: the stages of a request start in the order Fetcher,
\* ArchiveExtractor, Installer, ShimManager, each at most once and only
\* after the stage before it returned a nil error; once a stage has
\* returned an error no further stage starts and the command returns an
\* error (and it returns nil only after all four succeeded); the Fetcher
\* alone repeats work, at most maxRetries attempts.
C32_StagesRunInOrder ==
    /\ req.stages = SubSeq(Pipeline, 1, Len(req.stages))
    /\ Len(req.results) \in {Len(req.stages) - 1, Len(req.stages)}
    /\ \A k \in 1..Len(req.results) :
          req.results[k] # Nil => k = Len(req.stages)
    /\ req.pc \in {"failed", "returned"} =>
          /\ Len(req.results) = Len(req.stages)
          /\ (req.err = Nil) = (req.results[Len(req.results)] = Nil)
          /\ req.err = Nil => req.stages = Pipeline
    /\ req.run.attempt <= maxRetries
    /\ Len(req.stages) > 1 => req.run.pc = "done"

\* C32 witness: a request whose Fetcher needed a second attempt went through
\* the four stages and returned nil, after a request that stopped at the
\* Extractor
C32_Witness ==
    /\ req.pc = "returned"
    /\ req.stages = Pipeline
    /\ req.err = Nil
    /\ req.run.attempt >= 1
    /\ iruns = MaxRuns

\* the archive that the asset of a version names
AssetArchive(version) ==
    IF version = <<"1",".","0",".","0">> THEN RequestArchive.good
    ELSE RequestArchive.escaping

\* the files of an install directory are files of the archive: each holds
\* the content of the regular entry of its name below the root
FromArchive(f, version) ==
    \A dir \in {InstallPath(Manifest.name, version, Platform)} :
      \A p \in {q \in DOMAIN f : IsUnder(q, dir) /\ f[q].kind = "file"} :
        \E k \in 1..Len(AssetArchive(version).entries) :
          \E e \in {AssetArchive(version).entries[k]} :
            /\ e.typ = "reg"
            /\ f[p].data = e.data
            /\ HasSuffix(e.name, SubSeq(p, Len(dir) + 1, Len(p)))

\* C38: whenever the Installer or the ShimManager runs or has run for a
\* request, the Fetcher returned bytes whose digest is the checksum of the
\* asset of the request and the Extractor was given those bytes; and at
\* every moment each file in an install directory holds the content of an
\* entry of the archive whose digest is the checksum of the asset of that
\* version.
C38_InstalledFromVerifiedBytes ==
    /\ Len(req.stages) >= 3 =>
          /\ req.run.err = Nil
          /\ VerifyChecksum(req.run.ret[1], GetAsset(req.version).checksum) = Nil
          /\ ChecksumOf(req.run.ret[1]) = GetAsset(req.version).checksum
          /\ req.run.ret[1] = Encode(AssetArchive(req.version))
    /\ \A version \in {v \in Versions :
                          ValidateVersion(Manifest, v, Platform) = Nil} :
          /\ ChecksumOf(Encode(AssetArchive(version))) = GetAsset(version).checksum
          /\ FromArchive(fs, version)

\* the part of C38 about the stages alone
C38_StagesOnlyForVerifiedBytes ==
    Len(req.stages) >= 3 =>
        /\ req.run.err = Nil
        /\ VerifyChecksum(req.run.ret[1], GetAsset(req.version).checksum) = Nil
        /\ req.run.ret[1] = Encode(AssetArchive(req.version))

\* the part of C38 about the files, on a file system without symbolic links
C38_FilesFromArchiveWithoutLinks ==
    ~hasSymlinks =>
        \A version \in {v \in Versions :
                          ValidateVersion(Manifest, v, Platform) = Nil} :
            FromArchive(fs, version)

\* the install root, the shims directory and the configuration directory
\* of a file system, with all that is below them
PublishedTree(f) ==
    [p \in {q \in DOMAIN f : \/ IsUnder(q, InstallsDir)
                             \/ IsUnder(q, ShimsDir)
                             \/ IsUnder(q, ConfigDir)}
       |-> f[p]]

\* C39: while a request is in the Fetcher or in the Extractor, and after it
\* failed in one of them, the install root, the shims directory and the
\* configuration directory hold exactly what they held when the request
\* started; after the failure the whole file system is as it was then
\* (the temporary directory is gone too).
C39_FailedRequestChangesNothing ==
    /\ req.pc \in {"fetch", "extract", "failed"} =>
          PublishedTree(fs) = PublishedTree(req.fs0)
    /\ req.pc = "failed" =>
          /\ Len(req.stages) \in {1, 2}
          /\ req.err # Nil
          /\ fs = req.fs0

\* C39 witness: after pk@1.0.0 was installed, a request for pk@2.0.0 was
\* fetched and verified, and its archive was rejected by the Extractor
C39_Witness ==
    /\ req.pc = "failed"
    /\ req.stages = << "Fetcher", "ArchiveExtractor" >>
    /\ req.version = <<"2",".","0",".","0">>
    /\ iruns = MaxRuns
    /\ InstallPath(Manifest.name, <<"1",".","0",".",
          "0">>, Platform) \in DOMAIN fs
    /\ Join(ShimsDir, <<"t","o","o","l">>) \in DOMAIN fs

====
